---- MODULE Spec2Model ----
(***************************************************************************)
(* Model of the report pipeline of demo-exec-summary: the generate-report  *)
(* handler (backend/app/api/routers/reports.py), the report assembler      *)
(* (backend/app/services/report_service.py), the data processor            *)
(* (utils/data_processor.py) and the mail adapter                          *)
(* (backend/utils/email_sender.py).                                        *)
(*                                                                         *)
(* Python strings are sequences of tokens (words and separators), so that  *)
(* lower(), "in", endswith(), os.path.join and os.path.basename are        *)
(* computed rather than assumed.  The empty string is <<>>.                *)
(***************************************************************************)
EXTENDS Integers, Sequences, FiniteSets, TLC

\* ------------------------------------------------------------------ bounds

\* longest focus_areas list a request carries
MaxFocus == 2

\* how many chart builders may be broken (raise when called) in one request
MaxFailingBuilders == 1

\* the years from which the date resolver's "today" is drawn
FirstYear == 2023

LastYear == 2025

\* most rows of an events dataset given to the focus filter taken alone
MaxEventRows == 2

\* how many of its dataset loads a request makes while threads are followed
MaxLoads == 2

\* how many rows a dataset has when the metric functions are followed alone
MaxSampleRows == 3

\* how many seconds the clock advances while requests are followed
MaxTicks == 1

\* ----------------------------------------------------------------- strings

\* str.lower() on one token
LowerTok(t) ==
    CASE t = "Phishing" -> "phishing"
      [] t = "Statistics" -> "statistics"
      [] t = "Malware" -> "malware"
      [] t = "Incidents" -> "incidents"
      [] t = "Network" -> "network"
      [] t = "Security" -> "security"
      [] t = "Endpoint" -> "endpoint"
      [] t = "Compliance" -> "compliance"
      [] t = "Email" -> "email"
      [] t = "Detection" -> "detection"
      [] t = "Deep" -> "deep"
      [] t = "Dive" -> "dive"
      [] t = "Gateway" -> "gateway"
      [] t = "Firewall" -> "firewall"
      [] t = "Server" -> "server"
      [] t = "Last_Month" -> "last_month"
      [] t = "YTD" -> "ytd"
      [] t = "Last_Quarter" -> "last_quarter"
      [] t = "LAST_6_MONTHS" -> "last_6_months"
      [] t = "Year_To_Date" -> "year_to_date"
      [] t = "Last_Week" -> "last_week"
      [] t = "ENDPOINT" -> "endpoint"
      [] t = "Data" -> "data"
      [] t = "Protection" -> "protection"
      [] t = "Unauthorized" -> "unauthorized"
      [] t = "Access" -> "access"
      [] t = "Policy" -> "policy"
      [] t = "Violation" -> "violation"
      [] t = "Production" -> "production"
      [] OTHER -> t

\* str.lower()
Lower(s) == [i \in 1..Len(s) |-> LowerTok(s[i])]

\* needle in s (substring test; the needle is not empty)
Contains(s, needle) ==
    \E i \in 1..(Len(s) - Len(needle) + 1) :
        SubSeq(s, i, i + Len(needle) - 1) = needle

\* Series.str.contains(needle, case=False)
ContainsNoCase(s, needle) == Contains(Lower(s), Lower(needle))

\* str.endswith(suffix), suffix one token
EndsWith(s, suffix) == Len(s) > 0 /\ s[Len(s)] = suffix

\* os.path.basename: what follows the last "/"
RECURSIVE Basename(_)
Basename(p) ==
    IF Len(p) = 0 THEN <<>>
    ELSE IF p[Len(p)] = "/" THEN <<>>
    ELSE Append(Basename(SubSeq(p, 1, Len(p) - 1)), p[Len(p)])

\* os.path.join(dir, name)
PathJoin(dir, name) == dir \o <<"/">> \o name

\* ------------------------------------------------------------------- dates

IsLeap(y) == (y % 4 = 0) /\ ((y % 100 # 0) \/ (y % 400 = 0))

DaysInMonth(y, m) ==
    IF m = 2 THEN (IF IsLeap(y) THEN 29 ELSE 28)
    ELSE IF m \in {4, 6, 9, 11} THEN 30 ELSE 31

DaysBeforeYear(y) ==
    (y - 1) * 365 + ((y - 1) \div 4) - ((y - 1) \div 100) + ((y - 1) \div 400)

RECURSIVE DaysBeforeMonth(_, _)
DaysBeforeMonth(y, m) ==
    IF m = 1 THEN 0 ELSE DaysBeforeMonth(y, m - 1) + DaysInMonth(y, m - 1)

\* datetime(y, m, d)
Date(y, m, d) == [year |-> y, month |-> m, day |-> d]

\* date.toordinal()
ToOrdinal(dt) == DaysBeforeYear(dt.year) + DaysBeforeMonth(dt.year, dt.month) + dt.day

RECURSIVE MonthOf(_, _, _)
MonthOf(y, m, n) ==
    IF n <= DaysInMonth(y, m) THEN Date(y, m, n)
    ELSE MonthOf(y, m + 1, n - DaysInMonth(y, m))

RECURSIVE YearOf(_, _)
YearOf(y, n) ==
    LET len == IF IsLeap(y) THEN 366 ELSE 365
    IN  IF n <= len THEN MonthOf(y, 1, n) ELSE YearOf(y + 1, n - len)

\* date.fromordinal(n): the search starts at a year that is never too late
FromOrdinal(n) ==
    LET y0 == (n \div 366) + 1
    IN  YearOf(y0, n - DaysBeforeYear(y0))

\* the subtraction with a bug: the days are added
MinusDays_SignError(dt, k) == FromOrdinal(ToOrdinal(dt) + k)

\* dt - timedelta(days=k)
MinusDays(dt, k) == FromOrdinal(ToOrdinal(dt) - k)

\* strftime("%Y-%m-%d") followed by pd.to_datetime: the time of day is
\* dropped, the calendar day is kept
FormatDate(dt) == Date(dt.year, dt.month, dt.day)

\* get_date_range_from_period with a bug: the start month is that of the
\* quarter today is in
GetDateRangeFromPeriod_QuarterOfToday(period, today) ==
    LET p == Lower(period)
        current_quarter == ((today.month - 1) \div 3) + 1
        quarter_start_month == (current_quarter - 1) * 3 + 1
        range ==
            IF p = <<"last_quarter">> THEN
                IF current_quarter = 1
                THEN <<Date(today.year - 1, 10, 1), Date(today.year - 1, 12, 31)>>
                ELSE <<Date(today.year, quarter_start_month, 1),
                       IF current_quarter = 2 THEN Date(today.year, 3, 31)
                       ELSE IF current_quarter = 3 THEN Date(today.year, 6, 30)
                       ELSE Date(today.year, 9, 30)>>
            ELSE IF p = <<"last_month">> THEN
                IF today.month = 1
                THEN <<Date(today.year - 1, 12, 1), Date(today.year - 1, 12, 31)>>
                ELSE <<Date(today.year, today.month - 1, 1),
                       MinusDays(Date(today.year, today.month, 1), 1)>>
            ELSE IF p = <<"last_6_months">> THEN
                <<MinusDays(today, 180), today>>
            ELSE IF p = <<"ytd">> \/ p = <<"year_to_date">> THEN
                <<Date(today.year, 1, 1), today>>
            ELSE
                <<MinusDays(today, 90), today>>
    IN  <<FormatDate(range[1]), FormatDate(range[2])>>

\* get_date_range_from_period with a bug: the day is not taken off the first
\* of the current month
GetDateRangeFromPeriod_EndIsFirstOfMonth(period, today) ==
    LET p == Lower(period)
        current_quarter == ((today.month - 1) \div 3) + 1
        quarter_start_month == (current_quarter - 2) * 3 + 1
        range ==
            IF p = <<"last_quarter">> THEN
                IF current_quarter = 1
                THEN <<Date(today.year - 1, 10, 1), Date(today.year - 1, 12, 31)>>
                ELSE <<Date(today.year, quarter_start_month, 1),
                       IF current_quarter = 2 THEN Date(today.year, 3, 31)
                       ELSE IF current_quarter = 3 THEN Date(today.year, 6, 30)
                       ELSE Date(today.year, 9, 30)>>
            ELSE IF p = <<"last_month">> THEN
                IF today.month = 1
                THEN <<Date(today.year - 1, 12, 1), Date(today.year - 1, 12, 31)>>
                ELSE <<Date(today.year, today.month - 1, 1),
                       Date(today.year, today.month, 1)>>
            ELSE IF p = <<"last_6_months">> THEN
                <<MinusDays(today, 180), today>>
            ELSE IF p = <<"ytd">> \/ p = <<"year_to_date">> THEN
                <<Date(today.year, 1, 1), today>>
            ELSE
                <<MinusDays(today, 90), today>>
    IN  <<FormatDate(range[1]), FormatDate(range[2])>>

\* get_date_range_from_period with a bug: a token the code does not name is
\* resolved as ytd
GetDateRangeFromPeriod_UnknownIsYearToDate(period, today) ==
    LET p == Lower(period)
        current_quarter == ((today.month - 1) \div 3) + 1
        quarter_start_month == (current_quarter - 2) * 3 + 1
        range ==
            IF p = <<"last_quarter">> THEN
                IF current_quarter = 1
                THEN <<Date(today.year - 1, 10, 1), Date(today.year - 1, 12, 31)>>
                ELSE <<Date(today.year, quarter_start_month, 1),
                       IF current_quarter = 2 THEN Date(today.year, 3, 31)
                       ELSE IF current_quarter = 3 THEN Date(today.year, 6, 30)
                       ELSE Date(today.year, 9, 30)>>
            ELSE IF p = <<"last_month">> THEN
                IF today.month = 1
                THEN <<Date(today.year - 1, 12, 1), Date(today.year - 1, 12, 31)>>
                ELSE <<Date(today.year, today.month - 1, 1),
                       MinusDays(Date(today.year, today.month, 1), 1)>>
            ELSE IF p = <<"last_6_months">> THEN
                <<MinusDays(today, 180), today>>
            ELSE IF p = <<"ytd">> \/ p = <<"year_to_date">> THEN
                <<Date(today.year, 1, 1), today>>
            ELSE
                <<Date(today.year, 1, 1), today>>
    IN  <<FormatDate(range[1]), FormatDate(range[2])>>

\* DataProcessor.get_date_range_from_period
GetDateRangeFromPeriod(period, today) ==
    LET p == Lower(period)
        current_quarter == ((today.month - 1) \div 3) + 1
        quarter_start_month == (current_quarter - 2) * 3 + 1
        range ==
            IF p = <<"last_quarter">> THEN
                IF current_quarter = 1
                THEN <<Date(today.year - 1, 10, 1), Date(today.year - 1, 12, 31)>>
                ELSE <<Date(today.year, quarter_start_month, 1),
                       IF current_quarter = 2 THEN Date(today.year, 3, 31)
                       ELSE IF current_quarter = 3 THEN Date(today.year, 6, 30)
                       ELSE Date(today.year, 9, 30)>>
            ELSE IF p = <<"last_month">> THEN
                IF today.month = 1
                THEN <<Date(today.year - 1, 12, 1), Date(today.year - 1, 12, 31)>>
                ELSE <<Date(today.year, today.month - 1, 1),
                       MinusDays(Date(today.year, today.month, 1), 1)>>
            ELSE IF p = <<"last_6_months">> THEN
                <<MinusDays(today, 180), today>>
            ELSE IF p = <<"ytd">> \/ p = <<"year_to_date">> THEN
                <<Date(today.year, 1, 1), today>>
            ELSE
                <<MinusDays(today, 90), today>>
    IN  <<FormatDate(range[1]), FormatDate(range[2])>>

\* ---------------------------------------------------------------- datasets

DatasetNames == {"security_events.csv", "phishing_data.csv", "compliance_data.csv"}

\* DataProcessor.filter_by_date_range (every dataset has a date column);
\* df[mask] keeps the rows that satisfy the mask, in order
FilterByDateRange(df, start_date, end_date) ==
    LET start == ToOrdinal(start_date)
        end == ToOrdinal(end_date)
        InRange(row) == ToOrdinal(row.date) >= start /\ ToOrdinal(row.date) <= end
    IN  SelectSeq(df, InRange)

\* the for loop with a bug: the keyword is looked for in the area as written,
\* not in area.lower()
RECURSIVE FocusFilters_CaseSensitiveTag(_)
FocusFilters_CaseSensitiveTag(focus_areas) ==
    IF Len(focus_areas) = 0 THEN <<>>
    ELSE LET area == Head(focus_areas)
             rest == FocusFilters_CaseSensitiveTag(Tail(focus_areas))
         IN  IF Contains(area, <<"phishing">>)
                 THEN <<[column |-> "event_type", word |-> <<"Phishing">>]>> \o rest
             ELSE IF Contains(area, <<"malware">>)
                 THEN <<[column |-> "event_type", word |-> <<"Malware">>]>> \o rest
             ELSE IF Contains(area, <<"endpoint">>)
                 THEN <<[column |-> "target", word |-> <<"Endpoint">>]>> \o rest
             ELSE IF Contains(area, <<"network">>)
                 THEN <<[column |-> "source", word |-> <<"Network">>]>> \o rest
             ELSE rest

\* the for loop of get_security_events_data: one predicate per focus area
\* that names a keyword; a predicate is the column and the word it looks for
RECURSIVE FocusFilters(_)
FocusFilters(focus_areas) ==
    IF Len(focus_areas) = 0 THEN <<>>
    ELSE LET area == Lower(Head(focus_areas))
             rest == FocusFilters(Tail(focus_areas))
         IN  IF Contains(area, <<"phishing">>)
                 THEN <<[column |-> "event_type", word |-> <<"Phishing">>]>> \o rest
             ELSE IF Contains(area, <<"malware">>)
                 THEN <<[column |-> "event_type", word |-> <<"Malware">>]>> \o rest
             ELSE IF Contains(area, <<"endpoint">>)
                 THEN <<[column |-> "target", word |-> <<"Endpoint">>]>> \o rest
             ELSE IF Contains(area, <<"network">>)
                 THEN <<[column |-> "source", word |-> <<"Network">>]>> \o rest
             ELSE rest

\* the focus filter with a bug: the predicates are combined with & instead of |
ApplyFocusFilters_AndCombined(df, focus_areas) ==
    LET focus_filters == FocusFilters(focus_areas)
        Combined(row) ==
            \A i \in 1..Len(focus_filters) :
                ContainsNoCase(row[focus_filters[i].column], focus_filters[i].word)
    IN  IF Len(focus_areas) > 0 /\ Len(focus_filters) > 0
        THEN SelectSeq(df, Combined)
        ELSE df

\* the focus-area part of get_security_events_data
ApplyFocusFilters(df, focus_areas) ==
    LET focus_filters == FocusFilters(focus_areas)
        Combined(row) ==
            \E i \in 1..Len(focus_filters) :
                ContainsNoCase(row[focus_filters[i].column], focus_filters[i].word)
    IN  IF Len(focus_areas) > 0 /\ Len(focus_filters) > 0
        THEN SelectSeq(df, Combined)
        ELSE df

\* load_data with a bug: the cache entry is made before the file is looked for
LoadData_CachesMissing(cache, files, filename) ==
    IF cache[filename].present
    THEN [raised |-> FALSE, df |-> cache[filename].df, cache |-> cache]
    ELSE [raised |-> ~files[filename].exists, df |-> files[filename].rows,
          cache |-> [cache EXCEPT ![filename] =
                        [present |-> TRUE, df |-> files[filename].rows]]]

\* DataProcessor.load_data: the cache hit, the missing file, the read.
\* cache and files map a name to [present/exists, df/rows]
LoadData(cache, files, filename) ==
    IF cache[filename].present
    THEN [raised |-> FALSE, df |-> cache[filename].df, cache |-> cache]
    ELSE IF ~files[filename].exists
    THEN [raised |-> TRUE, df |-> <<>>, cache |-> cache]
    ELSE [raised |-> FALSE, df |-> files[filename].rows,
          cache |-> [cache EXCEPT ![filename] =
                        [present |-> TRUE, df |-> files[filename].rows]]]

\* ----------------------------------------------------------------- metrics
\* A Python float is kept exact, as the fraction num/den.

Frac(n, d) == [num |-> n, den |-> d]

\* len(df[df[column] == value])
CountWhere(df, column, value) ==
    Cardinality({i \in 1..Len(df) : df[i][column] = value})

\* df[column].sum()
RECURSIVE SumColumn(_, _)
SumColumn(df, column) ==
    IF Len(df) = 0 THEN 0 ELSE Head(df)[column] + SumColumn(Tail(df), column)

\* df["event_type"].value_counts().head(5).to_dict(): the (at most five) most
\* frequent event types with their counts
TopEventTypes(df) ==
    LET types == {df[i].event_type : i \in 1..Len(df)}
        count(t) == CountWhere(df, "event_type", t)
        top == IF Cardinality(types) <= 5 THEN types
               ELSE CHOOSE S \in SUBSET types :
                        /\ Cardinality(S) = 5
                        /\ \A a \in S, b \in types \ S : count(a) >= count(b)
    IN  [t \in top |-> count(t)]

\* calculate_security_metrics with a bug: the resolution rate is left a
\* fraction of 1, the "* 100" is missing
CalculateSecurityMetrics_RateAsFraction(events_df) ==
    IF Len(events_df) = 0 THEN
        [total_events |-> 0, critical_events |-> 0, high_events |-> 0,
         resolved_events |-> 0, avg_impact_score |-> Frac(0, 1),
         top_event_types |-> <<>>, resolution_rate |-> Frac(0, 1)]
    ELSE
        [total_events |-> Len(events_df),
         critical_events |-> CountWhere(events_df, "severity", "Critical"),
         high_events |-> CountWhere(events_df, "severity", "High"),
         resolved_events |-> CountWhere(events_df, "status", "Resolved"),
         avg_impact_score |-> Frac(SumColumn(events_df, "impact_score"), Len(events_df)),
         top_event_types |-> TopEventTypes(events_df),
         resolution_rate |->
             Frac(CountWhere(events_df, "status", "Resolved"), Len(events_df))]

\* DataProcessor.calculate_security_metrics
CalculateSecurityMetrics(events_df) ==
    IF Len(events_df) = 0 THEN
        [total_events |-> 0, critical_events |-> 0, high_events |-> 0,
         resolved_events |-> 0, avg_impact_score |-> Frac(0, 1),
         top_event_types |-> <<>>, resolution_rate |-> Frac(0, 1)]
    ELSE
        [total_events |-> Len(events_df),
         critical_events |-> CountWhere(events_df, "severity", "Critical"),
         high_events |-> CountWhere(events_df, "severity", "High"),
         resolved_events |-> CountWhere(events_df, "status", "Resolved"),
         avg_impact_score |-> Frac(SumColumn(events_df, "impact_score"), Len(events_df)),
         top_event_types |-> TopEventTypes(events_df),
         resolution_rate |->
             Frac(CountWhere(events_df, "status", "Resolved") * 100, Len(events_df))]

\* calculate_phishing_metrics with a bug: no guard for the empty dataset, so
\* the mean of no values is 0/0 (NaN)
CalculatePhishingMetrics_NoEmptyGuard(phishing_df) ==
    [total_campaigns |-> Len(phishing_df),
     avg_success_rate |->
         Frac(SumColumn(phishing_df, "success_rate") * 100, 100 * Len(phishing_df)),
     total_blocked |-> SumColumn(phishing_df, "blocked_count"),
     total_clicked |-> SumColumn(phishing_df, "clicked_count"),
     total_reported |-> SumColumn(phishing_df, "reported_count"),
     high_risk_campaigns |->
         Cardinality({i \in 1..Len(phishing_df) :
                         phishing_df[i].threat_level \in {"High", "Critical"}})]

\* DataProcessor.calculate_phishing_metrics; success_rate is stored in
\* hundredths (a fraction of 1), so its mean times 100 is sum * 100 / (100 * n)
CalculatePhishingMetrics(phishing_df) ==
    IF Len(phishing_df) = 0 THEN
        [total_campaigns |-> 0, avg_success_rate |-> Frac(0, 1), total_blocked |-> 0,
         total_clicked |-> 0, total_reported |-> 0, high_risk_campaigns |-> 0]
    ELSE
        [total_campaigns |-> Len(phishing_df),
         avg_success_rate |->
             Frac(SumColumn(phishing_df, "success_rate") * 100, 100 * Len(phishing_df)),
         total_blocked |-> SumColumn(phishing_df, "blocked_count"),
         total_clicked |-> SumColumn(phishing_df, "clicked_count"),
         total_reported |-> SumColumn(phishing_df, "reported_count"),
         high_risk_campaigns |->
             Cardinality({i \in 1..Len(phishing_df) :
                             phishing_df[i].threat_level \in {"High", "Critical"}})]

\* compliance_df.sort_values("date"): the rows in ascending date order.  The
\* default kind is quicksort, which is not a stable sort: rows of one date
\* come out in an order the library does not fix, so every date-ascending
\* arrangement of the rows is a possible result
DateSorts(df) ==
    { [i \in 1..Len(df) |-> df[p[i]]] :
        p \in { q \in [1..Len(df) -> 1..Len(df)] :
                  /\ \A i, j \in 1..Len(df) : i # j => q[i] # q[j]
                  /\ \A i, j \in 1..Len(df) :
                         i < j => ToOrdinal(df[q[i]].date) <= ToOrdinal(df[q[j]].date) } }

\* the groupby with a bug: without .tail(1) every assessment is kept
LatestAssessments_KeepsAll(sorted) == sorted

\* .groupby(["framework", "control_id"]).tail(1) on the sorted rows: the last
\* row of every group, in the order of the sorted rows
LatestAssessments(sorted) ==
    LET keep == {i \in 1..Len(sorted) :
                    ~\E j \in (i + 1)..Len(sorted) :
                        /\ sorted[j].framework = sorted[i].framework
                        /\ sorted[j].control_id = sorted[i].control_id}
        RECURSIVE Pick(_)
        Pick(i) == IF i > Len(sorted) THEN <<>>
                   ELSE IF i \in keep THEN <<sorted[i]>> \o Pick(i + 1)
                   ELSE Pick(i + 1)
    IN  Pick(1)

\* Series.unique().tolist(): the distinct values in order of first occurrence
RECURSIVE Unique(_)
Unique(s) ==
    IF Len(s) = 0 THEN <<>>
    ELSE LET init == Unique(SubSeq(s, 1, Len(s) - 1))
         IN  IF \E i \in 1..Len(init) : init[i] = s[Len(s)]
             THEN init ELSE Append(init, s[Len(s)])

\* DataProcessor.calculate_compliance_metrics; `sorted` is what
\* compliance_df.sort_values("date") returned, one of DateSorts(compliance_df)
CalculateComplianceMetrics(compliance_df, sorted) ==
    IF Len(compliance_df) = 0 THEN
        [total_controls |-> 0, compliant_controls |-> 0, compliance_rate |-> Frac(0, 1),
         avg_compliance_score |-> Frac(0, 1), frameworks |-> <<>>,
         non_compliant_controls |-> 0]
    ELSE
        LET latest_assessments == LatestAssessments(sorted)
        IN  [total_controls |-> Len(latest_assessments),
             compliant_controls |-> CountWhere(latest_assessments, "status", "Compliant"),
             compliance_rate |->
                 Frac(CountWhere(latest_assessments, "status", "Compliant") * 100,
                      Len(latest_assessments)),
             avg_compliance_score |->
                 Frac(SumColumn(latest_assessments, "compliance_score"),
                      Len(latest_assessments)),
             frameworks |->
                 Unique([i \in 1..Len(latest_assessments) |->
                            latest_assessments[i].framework]),
             non_compliant_controls |->
                 CountWhere(latest_assessments, "status", "Non-Compliant")]

\* ---------------------------------------------------------- report service

\* messages an exception raised by a collaborator may carry
ExcMessages == {"connection timed out", "rate limit exceeded"}

\* messages an exception raised by a chart builder may carry
ChartExcMessages == {"Image export requires the kaleido package"}

\* what the narrative adapter does in one request: which of its three calls
\* raises (0: none) and with which message
AdapterOutcomes == [raises_at : 0..3, msg : ExcMessages]

\* generate_ai_content with a bug: without an adapter it reports the outcome
\* of a call it never made
GenerateAiContent_NoAdapterVaries(adapter, outcome) ==
    IF adapter = "None" THEN
        [executive_summary |-> <<"Error generating AI summary: ", outcome.msg>>,
         key_findings |-> <<"AI analysis not available">>,
         recommendations |->
             <<"Please configure AI integration for detailed recommendations">>]
    ELSE IF outcome.raises_at = 0 THEN
        [executive_summary |-> <<"provider summary">>,
         key_findings |-> <<"provider finding">>,
         recommendations |-> <<"provider recommendation">>]
    ELSE
        [executive_summary |-> <<"Error generating AI summary: ", outcome.msg>>,
         key_findings |-> <<"AI analysis temporarily unavailable">>,
         recommendations |-> <<"Please try again later">>]

\* generate_ai_content with a bug: the except clause answers with the
\* no-adapter text and drops the exception's message
GenerateAiContent_DropsMessage(adapter, outcome) ==
    IF adapter = "None" \/ outcome.raises_at # 0 THEN
        [executive_summary |->
             <<"AI content generation is not available. Please configure OpenAI API key.">>,
         key_findings |-> <<"AI analysis not available">>,
         recommendations |->
             <<"Please configure AI integration for detailed recommendations">>]
    ELSE
        [executive_summary |-> <<"provider summary">>,
         key_findings |-> <<"provider finding">>,
         recommendations |-> <<"provider recommendation">>]

\* report_service.generate_ai_content
GenerateAiContent(adapter, outcome) ==
    IF adapter = "None" THEN
        [executive_summary |->
             <<"AI content generation is not available. Please configure OpenAI API key.">>,
         key_findings |-> <<"AI analysis not available">>,
         recommendations |->
             <<"Please configure AI integration for detailed recommendations">>]
    ELSE IF outcome.raises_at = 0 THEN
        [executive_summary |-> <<"provider summary">>,
         key_findings |-> <<"provider finding">>,
         recommendations |-> <<"provider recommendation">>]
    ELSE
        [executive_summary |-> <<"Error generating AI summary: ", outcome.msg>>,
         key_findings |-> <<"AI analysis temporarily unavailable">>,
         recommendations |-> <<"Please try again later">>]

\* needle in str(metrics): the dict's text holds the field names, numbers and
\* the strings among its values, which are the event types of top_event_types
\* and the framework names
StrMetricsContains(metrics, needle) ==
    \/ \E t \in DOMAIN metrics.security_metrics.top_event_types : Contains(t, needle)
    \/ \E i \in 1..Len(metrics.compliance_metrics.frameworks) :
           Contains(metrics.compliance_metrics.frameworks[i], needle)

\* the chart builders of ChartGenerator, in the order generate_charts calls them
ChartBuilders ==
    <<"create_security_events_overview", "create_events_timeline",
      "create_phishing_analysis", "create_compliance_dashboard",
      "create_kpi_cards", "create_trend_analysis">>

ChartTitles ==
    <<"Security Events Overview", "Security Events Timeline",
      "Phishing Campaign Analysis", "Compliance Status Dashboard",
      "Key Performance Indicators", "Security Trends Analysis">>

ChartExplanations ==
    <<"This chart shows the distribution of security events by type and severity level.",
      "Timeline showing security events over the reporting period, categorized by severity.",
      "Comprehensive analysis of phishing campaigns including success rates and trends.",
      "Current compliance status across different frameworks and controls.",
      "Key security metrics and performance indicators for the reporting period.",
      "Trend analysis showing security event patterns and impact scores over time.">>

\* the if-conditions with a bug: the KPI cards are built only for events
ChartCondition_KpiGated(k, events_df, phishing_df, compliance_df, metrics, report_type) ==
    CASE k \in {1, 2, 5, 6} -> Len(events_df) # 0
      [] k = 3 -> /\ Len(phishing_df) # 0
                  /\ \/ Contains(Lower(report_type), <<"phishing">>)
                     \/ StrMetricsContains(metrics, <<"Phishing", " ", "Statistics">>)
      [] OTHER -> Len(compliance_df) # 0

\* the if-conditions with a bug: the compliance dashboard is built only for
\* report types that name compliance
ChartCondition_ComplianceByType(k, events_df, phishing_df, compliance_df, metrics, report_type) ==
    CASE k \in {1, 2, 6} -> Len(events_df) # 0
      [] k = 3 -> /\ Len(phishing_df) # 0
                  /\ \/ Contains(Lower(report_type), <<"phishing">>)
                     \/ StrMetricsContains(metrics, <<"Phishing", " ", "Statistics">>)
      [] k = 4 -> /\ Len(compliance_df) # 0
                  /\ Contains(Lower(report_type), <<"compliance">>)
      [] OTHER -> TRUE

\* the if-conditions of generate_charts, one per builder
ChartCondition(k, events_df, phishing_df, compliance_df, metrics, report_type) ==
    CASE k \in {1, 2, 6} -> Len(events_df) # 0
      [] k = 3 -> /\ Len(phishing_df) # 0
                  /\ \/ Contains(Lower(report_type), <<"phishing">>)
                     \/ StrMetricsContains(metrics, <<"Phishing", " ", "Statistics">>)
      [] k = 4 -> /\ Len(compliance_df) # 0
                  /\ \/ Contains(Lower(report_type), <<"compliance">>)
                     \/ Len(compliance_df) > 0
      [] OTHER -> TRUE

\* the try block with a bug: charts.insert(0, ...) in place of charts.append
RECURSIVE ChartsFrom_Prepends(_, _, _, _, _, _, _, _)
ChartsFrom_Prepends(k, charts, events_df, phishing_df, compliance_df, metrics, report_type, failing) ==
    IF k > Len(ChartBuilders) THEN [charts |-> charts, raised |-> FALSE, builder |-> ""]
    ELSE IF ~ChartCondition(k, events_df, phishing_df, compliance_df, metrics, report_type)
    THEN ChartsFrom_Prepends(k + 1, charts, events_df, phishing_df, compliance_df, metrics,
                             report_type, failing)
    ELSE IF ChartBuilders[k] \in failing
    THEN [charts |-> charts, raised |-> TRUE, builder |-> ChartBuilders[k]]
    ELSE ChartsFrom_Prepends(k + 1,
                    << [title |-> ChartTitles[k],
                        html |-> <<"<div>", ChartBuilders[k], "</div>">>,
                        explanation |-> ChartExplanations[k]] >> \o charts,
                    events_df, phishing_df, compliance_df, metrics, report_type, failing)

\* the try block of generate_charts from builder k on: a builder in `failing`
\* raises when called, which leaves the rest of the block unexecuted
RECURSIVE ChartsFrom(_, _, _, _, _, _, _, _)
ChartsFrom(k, charts, events_df, phishing_df, compliance_df, metrics, report_type, failing) ==
    IF k > Len(ChartBuilders) THEN [charts |-> charts, raised |-> FALSE, builder |-> ""]
    ELSE IF ~ChartCondition(k, events_df, phishing_df, compliance_df, metrics, report_type)
    THEN ChartsFrom(k + 1, charts, events_df, phishing_df, compliance_df, metrics,
                    report_type, failing)
    ELSE IF ChartBuilders[k] \in failing
    THEN [charts |-> charts, raised |-> TRUE, builder |-> ChartBuilders[k]]
    ELSE ChartsFrom(k + 1,
                    Append(charts, [title |-> ChartTitles[k],
                                    html |-> <<"<div>", ChartBuilders[k], "</div>">>,
                                    explanation |-> ChartExplanations[k]]),
                    events_df, phishing_df, compliance_df, metrics, report_type, failing)

\* generate_charts with a bug: the except clause starts a new list
GenerateCharts_DropsBuilt(events_df, phishing_df, compliance_df, metrics, report_type, failing, msg) ==
    LET try == ChartsFrom(1, <<>>, events_df, phishing_df, compliance_df, metrics,
                          report_type, failing)
    IN  IF try.raised
        THEN << [title |-> "Chart Generation Error",
                 html |-> <<"<p>Error generating charts: ", msg, "</p>">>,
                 explanation |-> "There was an error generating the visualizations."] >>
        ELSE try.charts

\* report_service.generate_charts: the try block, then the except clause
GenerateCharts(events_df, phishing_df, compliance_df, metrics, report_type, failing, msg) ==
    LET try == ChartsFrom(1, <<>>, events_df, phishing_df, compliance_df, metrics,
                          report_type, failing)
    IN  IF try.raised
        THEN Append(try.charts,
                    [title |-> "Chart Generation Error",
                     html |-> <<"<p>Error generating charts: ", msg, "</p>">>,
                     explanation |-> "There was an error generating the visualizations."])
        ELSE try.charts

\* round n/d to the nearest integer, ties to even
RoundHalfEven(n, d) ==
    LET q == n \div d
        r == n % d
    IN  IF 2 * r < d THEN q
        ELSE IF 2 * r > d THEN q + 1
        ELSE IF q % 2 = 0 THEN q ELSE q + 1

\* f"{x:.1f}" for x >= 0
Format1f(x) ==
    LET tenths == RoundHalfEven(x.num * 10, x.den)
    IN  <<ToString(tenths \div 10), ".", ToString(tenths % 10)>>

\* prepare_kpi_data with a bug: the phishing block is extended first
PrepareKpiData_PhishingFirst(metrics) ==
    LET sec_metrics == metrics.security_metrics
        phish_metrics == metrics.phishing_metrics
        comp_metrics == metrics.compliance_metrics
    IN  << [value |-> <<ToString(phish_metrics.total_campaigns)>>,
            label |-> "Phishing Campaigns"],
           [value |-> Format1f(phish_metrics.avg_success_rate) \o <<"%">>,
            label |-> "Avg Success Rate"],
           [value |-> <<ToString(phish_metrics.total_blocked)>>,
            label |-> "Emails Blocked"],
           [value |-> <<ToString(sec_metrics.total_events)>>,
            label |-> "Total Security Events"],
           [value |-> <<ToString(sec_metrics.critical_events)>>,
            label |-> "Critical Events"],
           [value |-> Format1f(sec_metrics.resolution_rate) \o <<"%">>,
            label |-> "Resolution Rate"],
           [value |-> Format1f(sec_metrics.avg_impact_score),
            label |-> "Avg Impact Score"],
           [value |-> Format1f(comp_metrics.compliance_rate) \o <<"%">>,
            label |-> "Compliance Rate"],
           [value |-> <<ToString(comp_metrics.total_controls)>>,
            label |-> "Total Controls"],
           [value |-> Format1f(comp_metrics.avg_compliance_score),
            label |-> "Avg Compliance Score"] >>

\* prepare_kpi_data with a bug: the success rate, a percentage already, is
\* multiplied by 100 once more for display
PrepareKpiData_PercentAgain(metrics) ==
    LET sec_metrics == metrics.security_metrics
        phish_metrics == metrics.phishing_metrics
        comp_metrics == metrics.compliance_metrics
    IN  << [value |-> <<ToString(sec_metrics.total_events)>>,
            label |-> "Total Security Events"],
           [value |-> <<ToString(sec_metrics.critical_events)>>,
            label |-> "Critical Events"],
           [value |-> Format1f(sec_metrics.resolution_rate) \o <<"%">>,
            label |-> "Resolution Rate"],
           [value |-> Format1f(sec_metrics.avg_impact_score),
            label |-> "Avg Impact Score"],
           [value |-> <<ToString(phish_metrics.total_campaigns)>>,
            label |-> "Phishing Campaigns"],
           [value |-> Format1f(Frac(phish_metrics.avg_success_rate.num * 100,
                                    phish_metrics.avg_success_rate.den)) \o <<"%">>,
            label |-> "Avg Success Rate"],
           [value |-> <<ToString(phish_metrics.total_blocked)>>,
            label |-> "Emails Blocked"],
           [value |-> Format1f(comp_metrics.compliance_rate) \o <<"%">>,
            label |-> "Compliance Rate"],
           [value |-> <<ToString(comp_metrics.total_controls)>>,
            label |-> "Total Controls"],
           [value |-> Format1f(comp_metrics.avg_compliance_score),
            label |-> "Avg Compliance Score"] >>

\* report_service.prepare_kpi_data
PrepareKpiData(metrics) ==
    LET sec_metrics == metrics.security_metrics
        phish_metrics == metrics.phishing_metrics
        comp_metrics == metrics.compliance_metrics
    IN  << [value |-> <<ToString(sec_metrics.total_events)>>,
            label |-> "Total Security Events"],
           [value |-> <<ToString(sec_metrics.critical_events)>>,
            label |-> "Critical Events"],
           [value |-> Format1f(sec_metrics.resolution_rate) \o <<"%">>,
            label |-> "Resolution Rate"],
           [value |-> Format1f(sec_metrics.avg_impact_score),
            label |-> "Avg Impact Score"],
           [value |-> <<ToString(phish_metrics.total_campaigns)>>,
            label |-> "Phishing Campaigns"],
           [value |-> Format1f(phish_metrics.avg_success_rate) \o <<"%">>,
            label |-> "Avg Success Rate"],
           [value |-> <<ToString(phish_metrics.total_blocked)>>,
            label |-> "Emails Blocked"],
           [value |-> Format1f(comp_metrics.compliance_rate) \o <<"%">>,
            label |-> "Compliance Rate"],
           [value |-> <<ToString(comp_metrics.total_controls)>>,
            label |-> "Total Controls"],
           [value |-> Format1f(comp_metrics.avg_compliance_score),
            label |-> "Avg Compliance Score"] >>

\* ------------------------------------------------------------ mail adapter

\* what can happen inside EmailSender.send_report's try block
MailOutcomes == {"sent", "attachment_unreadable", "provider_raised"}

\* send_report with a bug: the attachment is read before the try block
SendReport_OpenOutsideTry(outcome) ==
    [raised |-> (outcome = "attachment_unreadable"), value |-> (outcome = "sent")]

\* EmailSender.send_report: the whole body is inside the try block, so nothing
\* is raised; True when resend.Emails.send returned, False from the except
\* clause
SendReport(outcome) == [raised |-> FALSE, value |-> (outcome = "sent")]

\* ------------------------------------------------------------------ inputs

\* the CSV files of DATA_DIR the model draws from: every dataset is missing,
\* holds only its header, or holds the rows below
EventRows ==
    << [date |-> Date(2025, 2, 14), event_type |-> <<"Phishing", " ", "Email">>,
        severity |-> "Critical", status |-> "Resolved",
        source |-> <<"Email", " ", "Gateway">>, target |-> <<"Endpoint", "-01">>,
        impact_score |-> 8],
       [date |-> Date(2025, 3, 5), event_type |-> <<"Malware", " ", "Detection">>,
        severity |-> "High", status |-> "Open",
        source |-> <<"Network", " ", "Firewall">>, target |-> <<"Server", "-02">>,
        impact_score |-> 5],
       [date |-> Date(2024, 6, 1), event_type |-> <<"Phishing", " ", "Email">>,
        severity |-> "Low", status |-> "Resolved",
        source |-> <<"Email", " ", "Gateway">>, target |-> <<"Server", "-02">>,
        impact_score |-> 2] >>

PhishingRows ==
    << [date |-> Date(2025, 2, 20), campaign_type |-> "Credential Harvest",
        success_rate |-> 25, blocked_count |-> 40, clicked_count |-> 10,
        reported_count |-> 4, threat_level |-> "High"],
       [date |-> Date(2024, 5, 2), campaign_type |-> "Invoice Fraud",
        success_rate |-> 10, blocked_count |-> 7, clicked_count |-> 1,
        reported_count |-> 1, threat_level |-> "Low"] >>

ComplianceRows ==
    << [date |-> Date(2025, 1, 10), framework |-> <<"ISO27001">>, control_id |-> "A.5",
        status |-> "Non-Compliant", compliance_score |-> 60, risk_level |-> "High"],
       [date |-> Date(2025, 2, 10), framework |-> <<"ISO27001">>, control_id |-> "A.5",
        status |-> "Compliant", compliance_score |-> 90, risk_level |-> "Low"],
       [date |-> Date(2025, 2, 12), framework |-> <<"SOC2">>, control_id |-> "CC1",
        status |-> "Non-Compliant", compliance_score |-> 55, risk_level |-> "High"] >>

RowsOf(name) ==
    CASE name = "security_events.csv" -> EventRows
      [] name = "phishing_data.csv" -> PhishingRows
      [] OTHER -> ComplianceRows

FileStates(name) ==
    { [exists |-> FALSE, rows |-> <<>>],
      [exists |-> TRUE, rows |-> <<>>],
      [exists |-> TRUE, rows |-> RowsOf(name)] }

\* request fields.  recipient_email is an EmailStr (schemas/report.py), which
\* admits no empty string; report_type and time_period are plain str
Emails == { <<"ciso", "@", "example.com">> }

ReportTypes ==
    { <<>>, <<"quarterly", "_", "review">>, <<"Phishing", "_", "Deep", "_", "Dive">>,
      <<"compliance", "_", "status">> }

TimePeriods == { <<>>, <<"ytd">>, <<"Last_Month">>, <<"last_week">> }

FocusAreaNames ==
    { <<"Phishing", " ", "Statistics">>, <<"Network", " ", "Security">> }

SeqsUpTo(S, n) == UNION { [1..k -> S] : k \in 0..n }

Requests ==
    [recipient_email : Emails, report_type : ReportTypes, time_period : TimePeriods,
     focus_areas : SeqsUpTo(FocusAreaNames, MaxFocus)]

\* config.environment: the ENVIRONMENT variable, "development" when unset
Environments == { <<"development">>, <<"Production">> }

\* the sets of chart builders that are broken in one request
FailingSets ==
    { F \in SUBSET { ChartBuilders[k] : k \in 1..Len(ChartBuilders) } :
        Cardinality(F) <= MaxFailingBuilders }

\* ------------------------------------------------------------------- state

VARIABLES
    files,          \* DATA_DIR: dataset name -> [exists, rows]
    ai_generator,   \* the narrative adapter singleton: "None" or "AIGenerator"
    email_sender,   \* the mail adapter singleton: "None" or "EmailSender"
    now,            \* datetime.now(): [date, time], time in seconds since midnight
    ticks,          \* how many seconds have passed since the process started
    environment,    \* config.environment, the ENVIRONMENT setting of the deployment
    pdf_mode,       \* chart_generator.pdf_mode, a field of the module-level singleton
    data_cache,     \* DataProcessor.data_cache: name -> [present, df]
    pc,             \* where the handler stands
    request,        \* the ReportRequest being handled
    events_df, phishing_df, compliance_df,   \* locals of generate_report_data
    metrics, ai_content, charts, kpi_data,   \* locals of generate_report_data
    pdf_path,       \* local of generate_report
    ai_error,       \* the message of the exception generate_ai_content caught, "" if none
    chart_error,    \* the chart builder whose exception generate_charts caught, "" if none
    success,        \* local of generate_report: "unset", or what send_report returned
    exc,            \* the exception in flight
    response,       \* what the client receives
    written,        \* the files this request wrote to reports_dir
    outbox,         \* the mails the provider accepted for this request
    calls,          \* the calls made for this request, in order: <<function, argument>>
    ranges,         \* the (start_date, end_date) pairs this request filtered with, in order
    singleton_writes  \* the <<singleton, attribute>> pairs this request assigned, the
                      \* entries of data_cache left aside

\* a call of get_date_range_from_period taken alone
VARIABLES
    current_date,   \* datetime.now() of the call, a calendar day
    token,          \* the period argument
    resolved,       \* the (start_date, end_date) pair returned, <<>> before the return
    resolver_pc     \* "ready" or "returned"

handler ==
    <<files, ai_generator, email_sender, now, data_cache, pc, request, events_df,
      phishing_df, compliance_df, metrics, ai_content, charts, kpi_data, pdf_path,
      ai_error, chart_error, success, exc, response, written, outbox, calls, ticks,
      environment, pdf_mode, ranges, singleton_writes>>

\* the focus filter of get_security_events_data taken alone
VARIABLES
    dated_df,       \* the events dataset filter_by_date_range returned
    filtered        \* the calls made on it, in order: [focus_areas, df returned]

\* load_data called by requests that run in threads of one process
VARIABLES
    frames,         \* the DataFrame objects: identity -> [name, parsed, touched]
    cached,         \* DataProcessor.data_cache as references: name -> identity, <<>> if absent
    thread_pc,      \* thread -> where it stands in load_data or in its caller
    thread_df,      \* thread -> the local df of load_data, <<>> if unset
    thread_ret,     \* thread -> the frame load_data returned to the caller, <<>> if none
    thread_loads    \* thread -> the loads the request has completed

resolver == <<current_date, token, resolved, resolver_pc>>

focus == <<dated_df, filtered>>

loader == <<frames, cached, thread_pc, thread_df, thread_ret, thread_loads>>

\* the three calculate_*_metrics functions and prepare_kpi_data taken alone
VARIABLES
    sample,         \* the filtered datasets: [events_df, phishing_df, compliance_df]
    aggregate,      \* all_metrics, <<>> before it is computed
    sorted_df,      \* what compliance_df.sort_values("date") returned, <<>> before
    kpi_list,       \* what prepare_kpi_data returned, <<>> before
    calc_pc         \* "loaded", "computed" or "flattened"

calc == <<sample, aggregate, sorted_df, kpi_list, calc_pc>>

\* requests that reach PDF generation while others do
VARIABLES
    reports_dir,    \* config.reports_dir: the files in it, path -> the request that rendered the content
    job             \* thread -> the locals of generate_report from the filename on

pdfs == <<reports_dir, job>>

vars == <<handler, resolver, focus, loader, calc, pdfs>>

env == <<files, ai_generator, email_sender, now, ticks, environment, resolver, focus,
         loader, calc, pdfs>>

caught == <<ai_error, chart_error, success>>

\* what a request leaves behind outside its locals and the dataset cache
effects == <<pdf_mode, ranges, singleton_writes>>

NoRequest ==
    [recipient_email |-> <<>>, report_type |-> <<>>, time_period |-> <<>>,
     focus_areas |-> <<>>]

NoExc == [type |-> "none", status_code |-> 0, text |-> <<>>]

NoResponse ==
    [code |-> 0, status |-> "", message |-> <<>>, detail |-> <<>>, report_id |-> <<>>]

EmptyCache == [n \in DatasetNames |-> [present |-> FALSE, df |-> <<>>]]

\* no call of get_date_range_from_period is being followed
ResolverIdle ==
    /\ current_date = Date(2025, 3, 10)
    /\ token = <<>>
    /\ resolved = <<>>
    /\ resolver_pc = "ready"

\* the focus filter is not being followed
FocusIdle ==
    /\ dated_df = <<>>
    /\ filtered = <<>>

\* the requests that run at the same time, one thread each
Threads == {"request-1", "request-2"}

\* no thread is in load_data and no DataFrame exists
LoaderIdle ==
    /\ frames = <<>>
    /\ cached = [n \in DatasetNames |-> <<>>]
    /\ thread_pc = [t \in Threads |-> "idle"]
    /\ thread_df = [t \in Threads |-> <<>>]
    /\ thread_ret = [t \in Threads |-> <<>>]
    /\ thread_loads = [t \in Threads |-> 0]

\* the metric functions are not being followed alone
CalcIdle ==
    /\ sample = <<>>
    /\ aggregate = <<>>
    /\ sorted_df = <<>>
    /\ kpi_list = <<>>
    /\ calc_pc = "loaded"

\* the locals of a thread that has not reached PDF generation
NoJob ==
    [pc |-> "idle", request |-> NoRequest, filename |-> <<>>, pdf_path |-> <<>>,
     attachment |-> "", report_id |-> <<>>]

\* no thread is past assembly and reports_dir is empty
PdfsIdle ==
    /\ reports_dir = {}
    /\ job = [t \in Threads |-> NoJob]

Init ==
    /\ ResolverIdle
    /\ FocusIdle
    /\ LoaderIdle
    /\ CalcIdle
    /\ PdfsIdle
    /\ files \in { f \in [DatasetNames -> UNION { FileStates(n) : n \in DatasetNames }] :
                     \A n \in DatasetNames : f[n] \in FileStates(n) }
    /\ ai_generator \in {"None", "AIGenerator"}
    /\ email_sender \in {"None", "EmailSender"}
    /\ environment = <<"development">>
    /\ now = [date |-> Date(2025, 3, 10), time |-> 36900]
    /\ ticks = 0
    /\ pdf_mode = TRUE
    /\ data_cache = EmptyCache
    /\ pc = "idle"
    /\ request = NoRequest
    /\ events_df = <<>> /\ phishing_df = <<>> /\ compliance_df = <<>>
    /\ metrics = <<>> /\ ai_content = <<>> /\ charts = <<>> /\ kpi_data = <<>>
    /\ pdf_path = <<>>
    /\ ai_error = "" /\ chart_error = "" /\ success = "unset"
    /\ exc = NoExc
    /\ response = NoResponse
    /\ written = {}
    /\ outbox = {}
    /\ calls = <<>>
    /\ ranges = <<>>
    /\ singleton_writes = {}

\* ----------------------------------------------------------------- handler

\* all([request.recipient_email, request.report_type, request.time_period])
AllRequired(req) ==
    /\ req.recipient_email # <<>>
    /\ req.report_type # <<>>
    /\ req.time_period # <<>>

\* HTTPException(status_code, detail); its str() is "<status_code>: <detail>"
HTTPException(status_code, detail) ==
    [type |-> "HTTPException", status_code |-> status_code,
     text |-> <<ToString(status_code), ": ">> \o detail]

\* FileNotFoundError(f"Data file not found: {filepath}") of load_data
FileNotFoundError(filename) ==
    [type |-> "FileNotFoundError", status_code |-> 0,
     text |-> <<"Data file not found: ", "data", "/", filename>>]

\* Exception(text)
PlainException(text) == [type |-> "Exception", status_code |-> 0, text |-> text]

\* jinja2's TemplateError(text)
TemplateError(text) == [type |-> "TemplateError", status_code |-> 0, text |-> text]

\* the except clause of generate_report: every Exception, HTTPException
\* included, is answered with HTTP 500 and the exception's text
ExceptClause(e) ==
    [code |-> 500, status |-> "", message |-> <<>>,
     detail |-> <<"Error generating report: ">> \o e.text, report_id |-> <<>>]

Pad2(n) == IF n < 10 THEN <<"0", ToString(n)>> ELSE <<ToString(n)>>

\* datetime.now().strftime('%Y%m%d_%H%M%S')
Timestamp(t) ==
    <<ToString(t.date.year)>> \o Pad2(t.date.month) \o Pad2(t.date.day) \o <<"_">>
        \o Pad2(t.time \div 3600) \o Pad2((t.time \div 60) % 60) \o Pad2(t.time % 60)

\* f"{request.report_type}_{request.time_period}_{timestamp}.pdf"
ReportFilename(req, t) ==
    req.report_type \o <<"_">> \o req.time_period \o <<"_">> \o Timestamp(t) \o <<".pdf">>

\* the path PDFGenerator.generate_pdf writes: the extension is added when it
\* is missing, the file goes to reports_dir
PdfOutputPath(filename) ==
    PathJoin(<<"generated_reports">>,
             IF EndsWith(filename, ".pdf") THEN filename ELSE Append(filename, ".pdf"))

\* the response branches with a bug: a failed delivery is reported as sent
MailResponse_AlwaysSuccess(sender, sent_ok, req, path) ==
    IF sender # "None" THEN
        [code |-> 200, status |-> "success",
         message |-> <<"Report successfully generated and sent to ">>
                        \o req.recipient_email \o <<"!">>,
         detail |-> <<>>, report_id |-> Basename(path)]
    ELSE
        [code |-> 200, status |-> "info",
         message |-> <<"Report generated successfully, but email functionality is not configured.">>,
         detail |-> <<>>, report_id |-> Basename(path)]

\* the three ReportResponse branches that follow generate_pdf
MailResponse(sender, sent_ok, req, path) ==
    IF sender # "None" THEN
        IF sent_ok THEN
            [code |-> 200, status |-> "success",
             message |-> <<"Report successfully generated and sent to ">>
                            \o req.recipient_email \o <<"!">>,
             detail |-> <<>>, report_id |-> Basename(path)]
        ELSE
            [code |-> 200, status |-> "warning",
             message |-> <<"Report generated but email delivery failed. Please check email configuration.">>,
             detail |-> <<>>, report_id |-> Basename(path)]
    ELSE
        [code |-> 200, status |-> "info",
         message |-> <<"Report generated successfully, but email functionality is not configured.">>,
         detail |-> <<>>, report_id |-> Basename(path)]

\* a request arrives and the handler is entered
ReceiveRequest ==
    /\ pc = "idle"
    /\ \E req \in Requests : request' = req
    /\ pc' = "validate"
    /\ UNCHANGED <<env, caught, effects, data_cache, events_df, phishing_df, compliance_df, metrics,
                   ai_content, charts, kpi_data, pdf_path, exc, response, written,
                   outbox, calls>>

\* generate_report: the check of the required fields, inside the try block
Validate ==
    /\ pc = "validate"
    /\ IF AllRequired(request)
       THEN pc' = "events" /\ exc' = exc
       ELSE /\ exc' = HTTPException(400, <<"Please fill in all required fields.">>)
            /\ pc' = "except"
    /\ UNCHANGED <<env, caught, effects, data_cache, request, events_df, phishing_df, compliance_df,
                   metrics, ai_content, charts, kpi_data, pdf_path, response, written,
                   outbox, calls>>

\* generate_report_data is entered; DataProcessor.get_security_events_data
GetSecurityEventsData ==
    /\ pc = "events"
    /\ LET loaded == LoadData(data_cache, files, "security_events.csv")
           range == GetDateRangeFromPeriod(request.time_period, now.date)
       IN  /\ calls' = calls \o <<<<"generate_report_data">>,
                                  <<"load_data", "security_events.csv">>>>
           /\ data_cache' = loaded.cache
           /\ IF loaded.raised
              THEN /\ exc' = FileNotFoundError("security_events.csv")
                   /\ pc' = "except"
                   /\ events_df' = events_df
                   /\ ranges' = ranges
              ELSE /\ events_df' =
                        ApplyFocusFilters(FilterByDateRange(loaded.df, range[1], range[2]),
                                          request.focus_areas)
                   /\ ranges' = Append(ranges, range)
                   /\ pc' = "phishing"
                   /\ exc' = exc
    /\ UNCHANGED <<env, caught, pdf_mode, singleton_writes, request, phishing_df, compliance_df, metrics, ai_content, charts,
                   kpi_data, pdf_path, response, written, outbox>>

\* DataProcessor.get_phishing_data
GetPhishingData ==
    /\ pc = "phishing"
    /\ LET loaded == LoadData(data_cache, files, "phishing_data.csv")
           range == GetDateRangeFromPeriod(request.time_period, now.date)
       IN  /\ calls' = Append(calls, <<"load_data", "phishing_data.csv">>)
           /\ data_cache' = loaded.cache
           /\ IF loaded.raised
              THEN /\ exc' = FileNotFoundError("phishing_data.csv")
                   /\ pc' = "except"
                   /\ phishing_df' = phishing_df
                   /\ ranges' = ranges
              ELSE /\ phishing_df' = FilterByDateRange(loaded.df, range[1], range[2])
                   /\ ranges' = Append(ranges, range)
                   /\ pc' = "compliance"
                   /\ exc' = exc
    /\ UNCHANGED <<env, caught, pdf_mode, singleton_writes, request, events_df, compliance_df, metrics, ai_content, charts,
                   kpi_data, pdf_path, response, written, outbox>>

\* DataProcessor.get_compliance_data
GetComplianceData ==
    /\ pc = "compliance"
    /\ LET loaded == LoadData(data_cache, files, "compliance_data.csv")
           range == GetDateRangeFromPeriod(request.time_period, now.date)
       IN  /\ calls' = Append(calls, <<"load_data", "compliance_data.csv">>)
           /\ data_cache' = loaded.cache
           /\ IF loaded.raised
              THEN /\ exc' = FileNotFoundError("compliance_data.csv")
                   /\ pc' = "except"
                   /\ compliance_df' = compliance_df
                   /\ ranges' = ranges
              ELSE /\ compliance_df' = FilterByDateRange(loaded.df, range[1], range[2])
                   /\ ranges' = Append(ranges, range)
                   /\ pc' = "metrics"
                   /\ exc' = exc
    /\ UNCHANGED <<env, caught, pdf_mode, singleton_writes, request, events_df, phishing_df, metrics, ai_content, charts,
                   kpi_data, pdf_path, response, written, outbox>>

\* generate_report_data: the three calculate_*_metrics calls and all_metrics
CalculateMetrics ==
    /\ pc = "metrics"
    /\ \E sorted \in DateSorts(compliance_df) :
           metrics' = [security_metrics |-> CalculateSecurityMetrics(events_df),
                       phishing_metrics |-> CalculatePhishingMetrics(phishing_df),
                       compliance_metrics |->
                           CalculateComplianceMetrics(compliance_df, sorted)]
    /\ pc' = "ai"
    /\ UNCHANGED <<env, caught, effects, data_cache, request, events_df, phishing_df, compliance_df,
                   ai_content, charts, kpi_data, pdf_path, exc, response, written,
                   outbox, calls>>

\* generate_report_data: the generate_ai_content call
GenerateAiContentStep ==
    /\ pc = "ai"
    /\ \E outcome \in AdapterOutcomes :
           /\ ai_content' = GenerateAiContent(ai_generator, outcome)
           /\ ai_error' = IF ai_generator # "None" /\ outcome.raises_at # 0
                          THEN outcome.msg ELSE ""
    /\ calls' = Append(calls, <<"generate_ai_content">>)
    /\ pc' = "charts"
    /\ UNCHANGED <<env, effects, chart_error, success, data_cache, request, events_df, phishing_df, compliance_df,
                   metrics, charts, kpi_data, pdf_path, exc, response, written, outbox>>

\* ChartGenerator.set_pdf_mode: self.pdf_mode = pdf_mode
SetPdfMode(for_pdf) == for_pdf

\* df["month"] = df["date"].dt.to_period("M").astype(str): the frame the
\* builder was given gets the column
AddMonthColumn(df) ==
    [i \in 1..Len(df) |->
        [c \in DOMAIN df[i] \cup {"month"} |->
            IF c = "month"
            THEN <<ToString(df[i].date.year), "-">> \o Pad2(df[i].date.month)
            ELSE df[i][c]]]

\* the builders that assign the month column of the frame they are given
MonthWriters(frame) ==
    CASE frame = "events_df" -> {"create_events_timeline", "create_trend_analysis"}
      [] frame = "phishing_df" -> {"create_phishing_analysis"}
      [] OTHER -> {"create_compliance_dashboard"}

\* the builders that got as far as their assignment of the month column: the
\* ones that returned a chart and the one that raised, which it did from its
\* last statement, the export of the figure (ChartExcMessages)
ReachedBuilders(try) ==
    {try.charts[i].html[2] : i \in 1..Len(try.charts)}
        \cup (IF try.raised THEN {try.builder} ELSE {})

\* a frame of generate_report_data after the builders in `built` ran on it
FrameAfterCharts(df, frame, built) ==
    IF built \cap MonthWriters(frame) # {} THEN AddMonthColumn(df) ELSE df

\* the generate_charts call with a bug: generate_charts has no try block, so
\* a builder's exception leaves generate_report_data
GenerateChartsStep_NoTry ==
    /\ pc = "charts"
    /\ \E failing \in FailingSets, msg \in ChartExcMessages :
           LET try == ChartsFrom(1, <<>>, events_df, phishing_df, compliance_df, metrics,
                                 request.report_type, failing)
               built == ReachedBuilders(try)
           IN  /\ charts' = try.charts
               /\ chart_error' = try.builder
               /\ events_df' = FrameAfterCharts(events_df, "events_df", built)
               /\ phishing_df' = FrameAfterCharts(phishing_df, "phishing_df", built)
               /\ compliance_df' = FrameAfterCharts(compliance_df, "compliance_df", built)
               /\ IF try.raised
                  THEN exc' = PlainException(<<msg>>) /\ pc' = "except"
                  ELSE exc' = exc /\ pc' = "kpi"
    /\ pdf_mode' = SetPdfMode(TRUE)
    /\ singleton_writes' = singleton_writes \cup {<<"chart_generator", "pdf_mode">>}
    /\ calls' = Append(calls, <<"generate_charts">>)
    /\ UNCHANGED <<env, ranges, ai_error, success, data_cache, request, metrics, ai_content,
                   kpi_data, pdf_path, response, written, outbox>>

\* generate_report_data: the generate_charts call (for_pdf=True).  The
\* builders work on the frames they are given, which are the ones the report
\* data returns
GenerateChartsStep ==
    /\ pc = "charts"
    /\ \E failing \in FailingSets, msg \in ChartExcMessages :
           LET try == ChartsFrom(1, <<>>, events_df, phishing_df, compliance_df, metrics,
                                 request.report_type, failing)
               built == ReachedBuilders(try)
           IN  /\ charts' = GenerateCharts(events_df, phishing_df, compliance_df, metrics,
                                           request.report_type, failing, msg)
               /\ chart_error' = try.builder
               /\ events_df' = FrameAfterCharts(events_df, "events_df", built)
               /\ phishing_df' = FrameAfterCharts(phishing_df, "phishing_df", built)
               /\ compliance_df' = FrameAfterCharts(compliance_df, "compliance_df", built)
    /\ pdf_mode' = SetPdfMode(TRUE)
    /\ singleton_writes' = singleton_writes \cup {<<"chart_generator", "pdf_mode">>}
    /\ calls' = Append(calls, <<"generate_charts">>)
    /\ pc' = "kpi"
    /\ UNCHANGED <<env, ranges, ai_error, success, data_cache, request, metrics, ai_content,
                   kpi_data, pdf_path, exc, response, written, outbox>>

\* generate_report_data: prepare_kpi_data and the return of the report data
PrepareKpiStep ==
    /\ pc = "kpi"
    /\ kpi_data' = PrepareKpiData(metrics)
    /\ calls' = Append(calls, <<"prepare_kpi_data">>)
    /\ pc' = "render"
    /\ UNCHANGED <<env, caught, effects, data_cache, request, events_df, phishing_df, compliance_df,
                   metrics, ai_content, charts, pdf_path, exc, response, written,
                   outbox>>

\* generate_report: render_report_html, which raises when the template fails
RenderReportHtml ==
    /\ pc = "render"
    /\ calls' = Append(calls, <<"render_report_html">>)
    /\ \/ pc' = "pdf" /\ exc' = exc
       \/ \E msg \in ExcMessages :
              exc' = TemplateError(<<msg>>) /\ pc' = "except"
    /\ UNCHANGED <<env, caught, effects, data_cache, request, events_df, phishing_df, compliance_df,
                   metrics, ai_content, charts, kpi_data, pdf_path, response, written,
                   outbox>>

\* generate_report: pdf_generator.generate_pdf, which writes the file or
\* raises Exception("Error generating PDF: ...")
GeneratePdf ==
    /\ pc = "pdf"
    /\ calls' = Append(calls, <<"generate_pdf">>)
    /\ LET output_path == PdfOutputPath(ReportFilename(request, now))
       IN  \/ /\ written' = written \cup {output_path}
              /\ pdf_path' = output_path
              /\ pc' = "email"
              /\ exc' = exc
           \/ \E msg \in ExcMessages :
                  /\ exc' = PlainException(<<"Error generating PDF: ", msg>>)
                  /\ pc' = "except"
                  /\ UNCHANGED <<written, pdf_path>>
    /\ UNCHANGED <<env, caught, effects, data_cache, request, events_df, phishing_df, compliance_df,
                   metrics, ai_content, charts, kpi_data, response, outbox>>

\* generate_report: the mail step and the response
SendEmail ==
    /\ pc = "email"
    /\ IF email_sender # "None"
       THEN \E outcome \in MailOutcomes :
                LET sent == SendReport(outcome)
                IN  /\ calls' = Append(calls, <<"send_report">>)
                    /\ outbox' = IF outcome = "sent"
                                 THEN outbox \cup {[to |-> request.recipient_email,
                                                    attachment |-> pdf_path]}
                                 ELSE outbox
                    /\ IF sent.raised
                       THEN /\ exc' = PlainException(<<outcome>>)
                            /\ pc' = "except"
                            /\ UNCHANGED <<success, response>>
                       ELSE /\ success' = IF sent.value THEN "True" ELSE "False"
                            /\ response' = MailResponse(email_sender, sent.value, request,
                                                        pdf_path)
                            /\ pc' = "done"
                            /\ exc' = exc
       ELSE /\ response' = MailResponse(email_sender, FALSE, request, pdf_path)
            /\ pc' = "done"
            /\ UNCHANGED <<calls, outbox, success, exc>>
    /\ UNCHANGED <<env, effects, ai_error, chart_error, data_cache, request, events_df,
                   phishing_df, compliance_df, metrics, ai_content, charts, kpi_data,
                   pdf_path, written>>

\* generate_report: the except clause
HandleException ==
    /\ pc = "except"
    /\ response' = ExceptClause(exc)
    /\ pc' = "done"
    /\ UNCHANGED <<env, caught, effects, data_cache, request, events_df, phishing_df, compliance_df,
                   metrics, ai_content, charts, kpi_data, pdf_path, exc, written,
                   outbox, calls>>

\* the response is sent; the request's locals go away, the cache stays
Respond ==
    /\ pc = "done"
    /\ pc' = "idle"
    /\ request' = NoRequest
    /\ events_df' = <<>> /\ phishing_df' = <<>> /\ compliance_df' = <<>>
    /\ metrics' = <<>> /\ ai_content' = <<>> /\ charts' = <<>> /\ kpi_data' = <<>>
    /\ pdf_path' = <<>>
    /\ ai_error' = "" /\ chart_error' = "" /\ success' = "unset"
    /\ exc' = NoExc
    /\ response' = NoResponse
    /\ written' = {}
    /\ outbox' = {}
    /\ calls' = <<>>
    /\ ranges' = <<>>
    /\ singleton_writes' = {}
    /\ UNCHANGED <<env, data_cache, pdf_mode>>

Next ==
    \/ ReceiveRequest
    \/ Validate
    \/ GetSecurityEventsData
    \/ GetPhishingData
    \/ GetComplianceData
    \/ CalculateMetrics
    \/ GenerateAiContentStep
    \/ GenerateChartsStep
    \/ PrepareKpiStep
    \/ RenderReportHtml
    \/ GeneratePdf
    \/ SendEmail
    \/ HandleException
    \/ Respond

Spec == Init /\ [][Next]_vars

\* ------------------------------------------------- the handler in deployment
\* The handler with the clock running, in either environment.

\* Config.is_production
IsProduction(env_name) == Lower(env_name) = <<"production">>

\* app.main.global_exception_handler, which answers the exceptions that no
\* handler caught; an HTTPException is answered by the framework from its
\* status code and detail and does not come here
GlobalExceptionHandler(e, env_name) ==
    [code |-> 500, status |-> "", message |-> <<>>,
     detail |-> IF IsProduction(env_name) THEN <<"Internal server error">> ELSE e.text,
     report_id |-> <<>>]

\* the datetime.now() one second later
NextSecond(t) ==
    IF t.time = 86399
    THEN [date |-> FromOrdinal(ToOrdinal(t.date) + 1), time |-> 0]
    ELSE [date |-> t.date, time |-> t.time + 1]

\* a second passes
Tick ==
    /\ ticks < MaxTicks
    /\ now' = NextSecond(now)
    /\ ticks' = ticks + 1
    /\ UNCHANGED <<files, ai_generator, email_sender, environment, resolver, focus, loader,
                   calc, pdfs, caught, effects, data_cache, pc, request, events_df,
                   phishing_df, compliance_df, metrics, ai_content, charts, kpi_data,
                   pdf_path, exc, response, written, outbox, calls>>

\* the process has started and the handler has not been entered
NoRequestInHand ==
    /\ pdf_mode = TRUE
    /\ data_cache = EmptyCache
    /\ pc = "idle"
    /\ request = NoRequest
    /\ events_df = <<>> /\ phishing_df = <<>> /\ compliance_df = <<>>
    /\ metrics = <<>> /\ ai_content = <<>> /\ charts = <<>> /\ kpi_data = <<>>
    /\ pdf_path = <<>>
    /\ ai_error = "" /\ chart_error = "" /\ success = "unset"
    /\ exc = NoExc
    /\ response = NoResponse
    /\ written = {}
    /\ outbox = {}
    /\ calls = <<>>
    /\ ranges = <<>>
    /\ singleton_writes = {}

\* the process has started on the last second of a quarter
LiveInit ==
    /\ ResolverIdle
    /\ FocusIdle
    /\ LoaderIdle
    /\ CalcIdle
    /\ PdfsIdle
    /\ files \in { [n \in DatasetNames |-> [exists |-> TRUE, rows |-> RowsOf(n)]],
                   [n \in DatasetNames |->
                       [exists |-> n # "phishing_data.csv", rows |-> RowsOf(n)]] }
    /\ ai_generator = "AIGenerator"
    /\ email_sender = "EmailSender"
    /\ environment \in Environments
    /\ now = [date |-> Date(2025, 3, 31), time |-> 86399]
    /\ ticks = 0
    /\ NoRequestInHand

LiveNext ==
    \/ Next
    \/ Tick

LiveSpec == LiveInit /\ [][LiveNext]_vars

\* ------------------------------------------------------ the generated PDFs
\* generate_report from the filename on, in requests that run in threads of
\* one process (or one after the other) while the clock runs.

\* the requests followed: valid ones, without focus areas
PdfRequests == { r \in Requests : AllRequired(r) /\ r.focus_areas = <<>> }

\* the file of reports_dir at `path`, as the request that rendered it
FileAt(dir, path) == CHOOSE f \in dir : f.path = path

\* html_doc.write_pdf(output_path): the file is created or replaced
WritePdfFile(dir, path, t) ==
    {f \in dir : f.path # path} \cup {[path |-> path, by |-> t]}

PdfInit ==
    /\ ResolverIdle
    /\ FocusIdle
    /\ LoaderIdle
    /\ CalcIdle
    /\ files = [n \in DatasetNames |-> [exists |-> TRUE, rows |-> RowsOf(n)]]
    /\ ai_generator = "None"
    /\ email_sender \in {"None", "EmailSender"}
    /\ environment = <<"development">>
    /\ now = [date |-> Date(2025, 3, 10), time |-> 36900]
    /\ ticks = 0
    /\ NoRequestInHand
    /\ reports_dir = {}
    /\ job = [t \in Threads |-> NoJob]

\* generate_report: the filename argument of generate_pdf is evaluated,
\* which reads the clock
NameReport(t) ==
    /\ job[t].pc = "idle"
    /\ \E req \in PdfRequests :
           job' = [job EXCEPT ![t] = [NoJob EXCEPT !.pc = "named", !.request = req,
                                                  !.filename = ReportFilename(req, now)]]
    /\ UNCHANGED <<handler, resolver, focus, loader, calc, reports_dir>>

\* PDFGenerator.generate_pdf: the file is written to reports_dir
WritePdf(t) ==
    /\ job[t].pc = "named"
    /\ LET output_path == PdfOutputPath(job[t].filename)
       IN  /\ reports_dir' = WritePdfFile(reports_dir, output_path, t)
           /\ job' = [job EXCEPT ![t].pc = "written", ![t].pdf_path = output_path]
    /\ UNCHANGED <<handler, resolver, focus, loader, calc>>

\* generate_report: email_sender.send_report, which reads the file at
\* pdf_path and attaches what it read
MailPdf(t) ==
    /\ job[t].pc = "written"
    /\ job' = [job EXCEPT ![t].pc = "mailed",
                          ![t].attachment =
                              IF email_sender # "None"
                              THEN FileAt(reports_dir, job[t].pdf_path).by ELSE ""]
    /\ UNCHANGED <<handler, resolver, focus, loader, calc, reports_dir>>

\* generate_report: the ReportResponse, report_id = os.path.basename(pdf_path)
AnswerPdf(t) ==
    /\ job[t].pc = "mailed"
    /\ job' = [job EXCEPT ![t].pc = "done", ![t].report_id = Basename(job[t].pdf_path)]
    /\ UNCHANGED <<handler, resolver, focus, loader, calc, reports_dir>>

PdfNext ==
    \/ \E t \in Threads : NameReport(t)
    \/ \E t \in Threads : WritePdf(t)
    \/ \E t \in Threads : MailPdf(t)
    \/ \E t \in Threads : AnswerPdf(t)
    \/ Tick

PdfSpec == PdfInit /\ [][PdfNext]_vars

\* ------------------------------------------------------- the date resolver
\* get_date_range_from_period called with every token on every day of the
\* years FirstYear..LastYear.

\* no request is being handled
HandlerIdle ==
    /\ files = [n \in DatasetNames |-> [exists |-> TRUE, rows |-> RowsOf(n)]]
    /\ ai_generator = "None"
    /\ email_sender = "None"
    /\ environment = <<"development">>
    /\ now = [date |-> Date(2025, 3, 10), time |-> 36900]
    /\ ticks = 0
    /\ pdf_mode = TRUE
    /\ data_cache = EmptyCache
    /\ pc = "idle"
    /\ request = NoRequest
    /\ events_df = <<>> /\ phishing_df = <<>> /\ compliance_df = <<>>
    /\ metrics = <<>> /\ ai_content = <<>> /\ charts = <<>> /\ kpi_data = <<>>
    /\ pdf_path = <<>>
    /\ ai_error = "" /\ chart_error = "" /\ success = "unset"
    /\ exc = NoExc
    /\ response = NoResponse
    /\ written = {}
    /\ outbox = {}
    /\ calls = <<>>
    /\ ranges = <<>>
    /\ singleton_writes = {}

\* the calendar days of the years FirstYear..LastYear
Days ==
    { dt \in [year : FirstYear..LastYear, month : 1..12, day : 1..31] :
        dt.day <= DaysInMonth(dt.year, dt.month) }

\* period arguments: the five tokens the code names, in several spellings of
\* case, and tokens it does not name
PeriodTokens ==
    { <<"last_quarter">>, <<"Last_Quarter">>, <<"last_month">>, <<"Last_Month">>,
      <<"last_6_months">>, <<"LAST_6_MONTHS">>, <<"ytd">>, <<"YTD">>,
      <<"year_to_date">>, <<"Year_To_Date">>,
      <<"last_week">>, <<"Last_Week">>, <<"last_year">>, <<"last", " ", "quarter">>,
      <<>> }

DatesInit ==
    /\ HandlerIdle
    /\ CalcIdle
    /\ PdfsIdle
    /\ FocusIdle
    /\ LoaderIdle
    /\ current_date \in Days
    /\ token = <<>>
    /\ resolved = <<>>
    /\ resolver_pc = "ready"

\* get_date_range_from_period(period) is called and returns
ResolvePeriod ==
    /\ resolver_pc = "ready"
    /\ \E period \in PeriodTokens :
           /\ token' = period
           /\ resolved' = GetDateRangeFromPeriod(period, current_date)
    /\ resolver_pc' = "returned"
    /\ UNCHANGED <<handler, focus, loader, calc, pdfs, current_date>>

\* the caller has used the pair; the next call is made on the same day
ForgetRange ==
    /\ resolver_pc = "returned"
    /\ token' = <<>>
    /\ resolved' = <<>>
    /\ resolver_pc' = "ready"
    /\ UNCHANGED <<handler, focus, loader, calc, pdfs, current_date>>

DatesNext ==
    \/ ResolvePeriod
    \/ ForgetRange

DateSpec == DatesInit /\ [][DatesNext]_vars

\* -------------------------------------------------------- the focus filter
\* The focus-area part of get_security_events_data applied to one date-filtered
\* events dataset, first with one selection of focus areas and then with a
\* selection that holds the same areas and possibly more.

\* rows of security_events.csv: values in several spellings of case, and
\* missing values (NaN, for which str.contains(na=False) answers False)
EventKinds ==
    { [date |-> Date(2025, 2, 14), event_type |-> <<"Phishing", " ", "Email">>,
       severity |-> "Critical", status |-> "Resolved",
       source |-> <<"Email", " ", "Gateway">>, target |-> <<"Endpoint", "-01">>,
       impact_score |-> 8],
      [date |-> Date(2025, 3, 5), event_type |-> <<"malware", " ", "detection">>,
       severity |-> "High", status |-> "Open",
       source |-> <<"Network", " ", "Firewall">>, target |-> <<"Server", "-02">>,
       impact_score |-> 5],
      [date |-> Date(2025, 2, 2), event_type |-> <<"Unauthorized", " ", "Access">>,
       severity |-> "Medium", status |-> "Open",
       source |-> <<>>, target |-> <<>>,
       impact_score |-> 4],
      [date |-> Date(2025, 1, 20), event_type |-> <<"Policy", " ", "Violation">>,
       severity |-> "Low", status |-> "Resolved",
       source |-> <<"network", " ", "switch">>, target |-> <<"ENDPOINT", "-07">>,
       impact_score |-> 1] }

\* focus areas in the order the client lists them: names of FOCUS_AREAS, one
\* of them in lower case, a name without keyword and a name with two keywords
FocusTags ==
    << <<"Phishing", " ", "Statistics">>, <<"Malware", " ", "Incidents">>,
       <<"Data", " ", "Protection">>, <<"endpoint", " ", "compliance">>,
       <<"Network", " ", "Security">>, <<"Network", " ", "Malware">> >>

\* the areas a list names
AreasOf(focus_areas) == { focus_areas[i] : i \in 1..Len(focus_areas) }

\* the focus_areas lists: every selection of areas, in the client's order
FocusLists ==
    { SelectSeq(FocusTags, LAMBDA tag : tag \in S) : S \in SUBSET AreasOf(FocusTags) }

FocusInit ==
    /\ HandlerIdle
    /\ CalcIdle
    /\ PdfsIdle
    /\ ResolverIdle
    /\ LoaderIdle
    /\ dated_df \in SeqsUpTo(EventKinds, MaxEventRows)
    /\ filtered = <<>>

\* get_security_events_data from line 99 on: the focus filter and the return
FilterEvents ==
    /\ Len(filtered) < 2
    /\ \E focus_areas \in FocusLists :
           /\ Len(filtered) = 1 => AreasOf(filtered[1].focus_areas) \subseteq AreasOf(focus_areas)
           /\ filtered' = Append(filtered,
                                 [focus_areas |-> focus_areas,
                                  df |-> ApplyFocusFilters(dated_df, focus_areas)])
    /\ UNCHANGED <<handler, resolver, loader, calc, pdfs, dated_df>>

FocusNext == FilterEvents

FocusSpec == FocusInit /\ [][FocusNext]_vars

\* ------------------------------------------------------- the dataset cache
\* Two requests run in threads of one process and share the DataProcessor.
\* A thread may be suspended between any two statements of load_data.  A
\* DataFrame is an object with an identity: the cache holds references, copy()
\* makes a new object, and a caller changes the object it holds.

\* the datasets a request loads, in the order generate_report_data asks
LoadOrder == <<"security_events.csv", "phishing_data.csv", "compliance_data.csv">>

\* the filename argument of the load thread t is making or will make next
FilenameOf(t) == LoadOrder[(thread_loads[t] % Len(LoadOrder)) + 1]

\* the identity of the next object thread t creates
NewFrame(t) == <<t, Cardinality({id \in DOMAIN frames : id[1] = t}) + 1>>

\* the return statement with a bug: the object itself is returned, not a copy
FrameCopy_SameObject(id, t) == id

\* df.copy(): the identity of the object the caller receives
FrameCopy(id, t) == NewFrame(t)

\* a dataset as pd.read_csv returns it: the date column holds strings
AsRead(name) == [name |-> name, parsed |-> FALSE, touched |-> {}]

LoaderInit ==
    /\ HandlerIdle
    /\ CalcIdle
    /\ PdfsIdle
    /\ ResolverIdle
    /\ FocusIdle
    /\ LoaderIdle

\* load_data is entered: if filename in self.data_cache
EnterLoad(t) ==
    /\ thread_pc[t] = "idle"
    /\ thread_loads[t] < MaxLoads
    /\ thread_pc' = [thread_pc EXCEPT
                        ![t] = IF cached[FilenameOf(t)] # <<>> THEN "hit" ELSE "miss"]
    /\ thread_df' = [thread_df EXCEPT ![t] = <<>>]
    /\ thread_ret' = [thread_ret EXCEPT ![t] = <<>>]
    /\ UNCHANGED <<handler, resolver, focus, calc, pdfs, frames, cached, thread_loads>>

\* return self.data_cache[filename].copy()
ReturnCached(t) ==
    /\ thread_pc[t] = "hit"
    /\ LET src == cached[FilenameOf(t)]
           new == FrameCopy(src, t)
       IN  /\ frames' = frames @@ (new :> frames[src])
           /\ thread_ret' = [thread_ret EXCEPT ![t] = new]
    /\ thread_pc' = [thread_pc EXCEPT ![t] = "returned"]
    /\ UNCHANGED <<handler, resolver, focus, calc, pdfs, cached, thread_df, thread_loads>>

\* the file is there: df = pd.read_csv(filepath)
ReadCsv(t) ==
    /\ thread_pc[t] = "miss"
    /\ LET new == NewFrame(t)
       IN  /\ frames' = frames @@ (new :> AsRead(FilenameOf(t)))
           /\ thread_df' = [thread_df EXCEPT ![t] = new]
    /\ thread_pc' = [thread_pc EXCEPT ![t] = "convert"]
    /\ UNCHANGED <<handler, resolver, focus, calc, pdfs, cached, thread_ret, thread_loads>>

\* df["date"] = pd.to_datetime(df["date"])
ConvertDates(t) ==
    /\ thread_pc[t] = "convert"
    /\ frames' = [frames EXCEPT ![thread_df[t]].parsed = TRUE]
    /\ thread_pc' = [thread_pc EXCEPT ![t] = "store"]
    /\ UNCHANGED <<handler, resolver, focus, calc, pdfs, cached, thread_df, thread_ret, thread_loads>>

\* self.data_cache[filename] = df
StoreInCache(t) ==
    /\ thread_pc[t] = "store"
    /\ cached' = [cached EXCEPT ![FilenameOf(t)] = thread_df[t]]
    /\ thread_pc' = [thread_pc EXCEPT ![t] = "copy"]
    /\ UNCHANGED <<handler, resolver, focus, calc, pdfs, frames, thread_df, thread_ret, thread_loads>>

\* return df.copy()
ReturnCopy(t) ==
    /\ thread_pc[t] = "copy"
    /\ LET new == FrameCopy(thread_df[t], t)
       IN  /\ frames' = frames @@ (new :> frames[thread_df[t]])
           /\ thread_ret' = [thread_ret EXCEPT ![t] = new]
    /\ thread_pc' = [thread_pc EXCEPT ![t] = "returned"]
    /\ UNCHANGED <<handler, resolver, focus, calc, pdfs, cached, thread_df, thread_loads>>

\* filter_by_date_range: df[mask] is a new object
FilterLoaded(t) ==
    /\ thread_pc[t] = "returned"
    /\ LET new == NewFrame(t)
       IN  /\ frames' = frames @@ (new :> frames[thread_ret[t]])
           /\ thread_ret' = [thread_ret EXCEPT ![t] = new]
    /\ thread_pc' = [thread_pc EXCEPT ![t] = "filtered"]
    /\ UNCHANGED <<handler, resolver, focus, calc, pdfs, cached, thread_df, thread_loads>>

\* the caller changes the frame it holds, as get_trend_data does with
\* df["month"] = ...
MutateCopy(t) ==
    /\ thread_pc[t] \in {"returned", "filtered"}
    /\ frames' = [frames EXCEPT ![thread_ret[t]].touched = @ \cup {t}]
    /\ thread_pc' = [thread_pc EXCEPT ![t] = "using"]
    /\ UNCHANGED <<handler, resolver, focus, calc, pdfs, cached, thread_df, thread_ret, thread_loads>>

\* the caller is done with the dataset; the request goes on to its next load
FinishLoad(t) ==
    /\ thread_pc[t] \in {"returned", "filtered", "using"}
    /\ thread_loads' = [thread_loads EXCEPT ![t] = @ + 1]
    /\ thread_pc' = [thread_pc EXCEPT ![t] = "idle"]
    /\ UNCHANGED <<handler, resolver, focus, calc, pdfs, frames, cached, thread_df, thread_ret>>

LoaderNext ==
    \E t \in Threads :
        \/ EnterLoad(t)
        \/ ReturnCached(t)
        \/ ReadCsv(t)
        \/ ConvertDates(t)
        \/ StoreInCache(t)
        \/ ReturnCopy(t)
        \/ FilterLoaded(t)
        \/ MutateCopy(t)
        \/ FinishLoad(t)

CacheSpec == LoaderInit /\ [][LoaderNext]_vars

\* ------------------------------------------------------------- the metrics
\* calculate_security_metrics, calculate_phishing_metrics,
\* calculate_compliance_metrics and prepare_kpi_data on datasets of up to
\* MaxSampleRows rows, one dataset varied at a time.

\* the events dataset of the end-to-end scenario: ten rows, three of them
\* Critical and seven Resolved
TenEvents ==
    [i \in 1..10 |->
        [date |-> Date(2025, 2, i), event_type |-> <<"Phishing", " ", "Email">>,
         severity |-> IF i <= 3 THEN "Critical" ELSE IF i <= 6 THEN "High" ELSE "Low",
         status |-> IF i \in 2..8 THEN "Resolved" ELSE "Open",
         source |-> <<"Email", " ", "Gateway">>, target |-> <<"Endpoint", "-01">>,
         impact_score |-> i]]

\* rows of phishing_data.csv; success_rate is a fraction of 1, in hundredths
CampaignKinds ==
    { [date |-> Date(2025, 2, 20), campaign_type |-> "Credential Harvest",
       success_rate |-> 25, blocked_count |-> 40, clicked_count |-> 10,
       reported_count |-> 4, threat_level |-> "High"],
      [date |-> Date(2025, 1, 7), campaign_type |-> "Invoice Fraud",
       success_rate |-> 10, blocked_count |-> 7, clicked_count |-> 1,
       reported_count |-> 1, threat_level |-> "Low"],
      [date |-> Date(2025, 3, 1), campaign_type |-> "Spear Phishing",
       success_rate |-> 100, blocked_count |-> 0, clicked_count |-> 3,
       reported_count |-> 0, threat_level |-> "Critical"] }

\* rows of compliance_data.csv: an older and two same-day assessments of one
\* control, and a control of another framework with the same control_id
AssessmentKinds ==
    { [date |-> Date(2025, 1, 10), framework |-> <<"ISO27001">>, control_id |-> "A.5",
       status |-> "Non-Compliant", compliance_score |-> 60, risk_level |-> "High"],
      [date |-> Date(2025, 2, 10), framework |-> <<"ISO27001">>, control_id |-> "A.5",
       status |-> "Compliant", compliance_score |-> 90, risk_level |-> "Low"],
      [date |-> Date(2025, 2, 10), framework |-> <<"ISO27001">>, control_id |-> "A.5",
       status |-> "Non-Compliant", compliance_score |-> 40, risk_level |-> "High"],
      [date |-> Date(2025, 2, 12), framework |-> <<"SOC2">>, control_id |-> "A.5",
       status |-> "Compliant", compliance_score |-> 80, risk_level |-> "Medium"] }

\* the filtered datasets the metric functions are given
Samples ==
    { [events_df |-> e, phishing_df |-> <<>>, compliance_df |-> <<>>] :
        e \in SeqsUpTo(EventKinds, MaxSampleRows) \cup {TenEvents} }
    \cup { [events_df |-> <<>>, phishing_df |-> p, compliance_df |-> <<>>] :
             p \in SeqsUpTo(CampaignKinds, MaxSampleRows) }
    \cup { [events_df |-> <<>>, phishing_df |-> <<>>, compliance_df |-> c] :
             c \in SeqsUpTo(AssessmentKinds, MaxSampleRows) }
    \cup { [events_df |-> EventRows, phishing_df |-> PhishingRows,
            compliance_df |-> ComplianceRows] }

MetricsInit ==
    /\ HandlerIdle
    /\ ResolverIdle
    /\ FocusIdle
    /\ LoaderIdle
    /\ PdfsIdle
    /\ sample \in Samples
    /\ aggregate = <<>>
    /\ sorted_df = <<>>
    /\ kpi_list = <<>>
    /\ calc_pc = "loaded"

\* generate_report_data: the three calculate_*_metrics calls and all_metrics
ComputeMetrics ==
    /\ calc_pc = "loaded"
    /\ \E sorted \in DateSorts(sample.compliance_df) :
           /\ sorted_df' = sorted
           /\ aggregate' =
                  [security_metrics |-> CalculateSecurityMetrics(sample.events_df),
                   phishing_metrics |-> CalculatePhishingMetrics(sample.phishing_df),
                   compliance_metrics |->
                       CalculateComplianceMetrics(sample.compliance_df, sorted)]
    /\ calc_pc' = "computed"
    /\ UNCHANGED <<handler, resolver, focus, loader, pdfs, sample, kpi_list>>

\* generate_report_data: prepare_kpi_data(all_metrics)
FlattenKpis ==
    /\ calc_pc = "computed"
    /\ kpi_list' = PrepareKpiData(aggregate)
    /\ calc_pc' = "flattened"
    /\ UNCHANGED <<handler, resolver, focus, loader, pdfs, sample, aggregate, sorted_df>>

MetricsNext ==
    \/ ComputeMetrics
    \/ FlattenKpis

MetricsSpec == MetricsInit /\ [][MetricsNext]_vars

\* ------------------------------------------------------------------ claims

\* the handler made this call for the request in hand
Called(call) == \E i \in 1..Len(calls) : calls[i] = call

HasTitle(cs, title) == \E i \in 1..Len(cs) : cs[i].title = title

BuilderIndex(b) == CHOOSE k \in 1..Len(ChartBuilders) : ChartBuilders[k] = b

\* C1 (as claimed): a request with an empty required field is answered with
\* HTTP 400 and none of generate_report_data, generate_pdf and send_report is
\* called for it.
C1_EmptyFieldGets400 ==
    (pc = "done" /\ ~AllRequired(request)) =>
        /\ response.code = 400
        /\ ~Called(<<"generate_report_data">>)
        /\ ~Called(<<"generate_pdf">>)
        /\ ~Called(<<"send_report">>)

\* C2: once the PDF is written the response is HTTP 200, its status says what
\* the mail step did (success: sender configured and send_report returned
\* True; warning: configured and False; info: not configured) and report_id is
\* the name of the file that was written.
C2_StatusFollowsMailStep ==
    (pc \in {"except", "done"} /\ pdf_path # <<>>) =>
        /\ pc = "done"
        /\ response.code = 200
        /\ response.status \in {"success", "warning", "info"}
        /\ (response.status = "success") <=> (email_sender # "None" /\ success = "True")
        /\ (response.status = "warning") <=> (email_sender # "None" /\ success = "False")
        /\ (response.status = "info") <=> (email_sender = "None")
        /\ response.report_id = ReportFilename(request, now)
        /\ PathJoin(<<"generated_reports">>, response.report_id) \in written

C2_Witness ==
    /\ pc = "done"
    /\ response.status = "warning"
    /\ response.report_id # <<>>
    /\ written # {}

\* C3: a load of a dataset whose file is missing raises FileNotFoundError, adds
\* no cache entry for it, is not repeated, and the request ends with HTTP 500,
\* no PDF written and no mail sent.
C3_MissingDatasetIsFatal ==
    \A n \in DatasetNames :
        (~files[n].exists /\ Called(<<"load_data", n>>)) =>
            /\ ~data_cache[n].present
            /\ pc \in {"except", "done"}
            /\ exc = FileNotFoundError(n)
            /\ Cardinality({i \in 1..Len(calls) : calls[i] = <<"load_data", n>>}) = 1
            /\ calls[Len(calls)] = <<"load_data", n>>
            /\ written = {}
            /\ outbox = {}
            /\ pc = "done" => (response.code = 500 /\ response.report_id = <<>>)

C3_Witness ==
    /\ ~files["phishing_data.csv"].exists
    /\ data_cache["security_events.csv"].present
    /\ Called(<<"load_data", "phishing_data.csv">>)
    /\ pc = "done"
    /\ response.code = 500

\* C4: without a narrative adapter the narrative is the fixed fallback, the
\* same for every request, and the chart list and the KPI list are built as
\* they are with an adapter.
C4_NoAdapterFallback ==
    (ai_generator = "None" /\ Called(<<"generate_ai_content">>)) =>
        /\ ai_content =
               [executive_summary |->
                    <<"AI content generation is not available. Please configure OpenAI API key.">>,
                key_findings |-> <<"AI analysis not available">>,
                recommendations |->
                    <<"Please configure AI integration for detailed recommendations">>]
        /\ ai_error = ""
        /\ Called(<<"generate_charts">>) =>
               /\ Len(charts) >= 1
               /\ charts \in { GenerateCharts(events_df, phishing_df, compliance_df, metrics,
                                             request.report_type, failing, msg) :
                                  failing \in FailingSets, msg \in ChartExcMessages }
        /\ Called(<<"prepare_kpi_data">>) =>
               /\ Len(kpi_data) = 10
               /\ kpi_data = PrepareKpiData(metrics)

C4_Witness ==
    /\ ai_generator = "None"
    /\ pc = "done"
    /\ response.code = 200
    /\ Len(charts) > 1
    /\ Len(kpi_data) = 10

\* C5 (as claimed): when the adapter raises, the fallback record is the same
\* whatever the failure was: no part of it carries the exception's message.
C5_FallbackSameForEveryFailure ==
    (ai_error # "" /\ Called(<<"generate_ai_content">>)) =>
        /\ ai_content.key_findings = <<"AI analysis temporarily unavailable">>
        /\ ai_content.recommendations = <<"Please try again later">>
        /\ \A m \in ExcMessages : ~Contains(ai_content.executive_summary, <<m>>)

\* C5 (amended): when the adapter raises, generate_ai_content returns a record
\* with the fixed key_findings and recommendations and with the summary
\* "Error generating AI summary: " followed by the exception's message; nothing
\* is raised and the assembly goes on to the charts and the KPIs.
C5_FallbackCarriesMessage ==
    (ai_error # "" /\ Called(<<"generate_ai_content">>)) =>
        /\ ai_content =
               [executive_summary |-> <<"Error generating AI summary: ", ai_error>>,
                key_findings |-> <<"AI analysis temporarily unavailable">>,
                recommendations |-> <<"Please try again later">>]
        /\ ~Called(<<"render_report_html">>) =>
               (exc = NoExc /\ pc \in {"charts", "kpi", "render"})
        /\ Called(<<"prepare_kpi_data">>) => (Len(charts) >= 1 /\ Len(kpi_data) = 10)

C5_Witness ==
    /\ ai_error = "rate limit exceeded"
    /\ pc = "render"
    /\ Len(kpi_data) = 10

\* C6: once the three datasets are loaded generate_report_data returns: between
\* its entry and render_report_html the only exception is the FileNotFoundError
\* of a missing dataset, whatever the adapter and the chart builders do.
C6_AssemblyNeverRaises ==
    (Called(<<"generate_report_data">>) /\ ~Called(<<"render_report_html">>)) =>
        /\ exc # NoExc => \E n \in DatasetNames : ~files[n].exists /\ exc = FileNotFoundError(n)
        /\ (\A n \in DatasetNames : files[n].exists) =>
               pc \in {"phishing", "compliance", "metrics", "ai", "charts", "kpi", "render"}
        /\ pc = "render" =>
               /\ Len(kpi_data) = 10
               /\ Len(charts) >= 1
               /\ ai_content # <<>>
               /\ metrics # <<>>

C6_Witness ==
    /\ pc = "render"
    /\ ai_error # ""
    /\ chart_error # ""
    /\ request.focus_areas # <<>>

\* C7: send_report raises nothing: after it the handler is done with no
\* exception in flight, it returned True exactly when the provider accepted
\* the mail and False for every failure.
C7_SendReportNeverRaises ==
    Called(<<"send_report">>) =>
        /\ pc = "done"
        /\ exc = NoExc
        /\ success \in {"True", "False"}
        /\ (success = "True") <=> (outbox # {})
        /\ response.code = 200

C7_Witness ==
    /\ Called(<<"send_report">>)
    /\ success = "False"
    /\ outbox = {}
    /\ pc = "done"

\* C8 (as claimed): with no builder failing, the Phishing Campaign Analysis
\* chart is in the list exactly when the phishing dataset is not empty and
\* report_type contains "phishing" or "Phishing Statistics" is a focus area.
C8_PhishingChartRule ==
    (Called(<<"generate_charts">>) /\ chart_error = "") =>
        (HasTitle(charts, "Phishing Campaign Analysis") <=>
            /\ Len(phishing_df) # 0
            /\ \/ Contains(Lower(request.report_type), <<"phishing">>)
               \/ \E i \in 1..Len(request.focus_areas) :
                      request.focus_areas[i] = <<"Phishing", " ", "Statistics">>)

C11_EmptinessGating ==
    (Called(<<"generate_charts">>) /\ chart_error = "") =>
        /\ Len(phishing_df) = 0 => ~HasTitle(charts, "Phishing Campaign Analysis")
        /\ \A t \in {"Security Events Overview", "Security Events Timeline",
                     "Security Trends Analysis"} :
               HasTitle(charts, t) <=> Len(events_df) # 0
        /\ HasTitle(charts, "Compliance Status Dashboard") <=> Len(compliance_df) # 0

C11_Witness ==
    /\ Called(<<"generate_charts">>) /\ chart_error = ""
    /\ Len(events_df) = 0 /\ Len(phishing_df) = 0 /\ Len(compliance_df) # 0
    /\ Contains(Lower(request.report_type), <<"phishing">>)
    /\ Len(charts) = 2
    /\ charts[1].title = "Compliance Status Dashboard"

\* the layout order of the document
LayoutOrder ==
    <<"Security Events Overview", "Security Events Timeline",
      "Phishing Campaign Analysis", "Compliance Status Dashboard",
      "Key Performance Indicators", "Security Trends Analysis">>

\* C12: the titles of the list generate_charts returns, the error entry left
\* aside, are a subsequence without duplicates of the layout order.
C12_FixedLayoutOrder ==
    Called(<<"generate_charts">>) =>
        LET IsChart(c) == c.title # "Chart Generation Error"
            built == SelectSeq(charts, IsChart)
        IN  \E pos \in [1..Len(built) -> 1..Len(LayoutOrder)] :
                /\ \A i \in 1..Len(built) : built[i].title = LayoutOrder[pos[i]]
                /\ \A i, j \in 1..Len(built) : i < j => pos[i] < pos[j]

C12_Witness ==
    /\ Called(<<"generate_charts">>)
    /\ Len(charts) = 5
    /\ charts[5].title = "Chart Generation Error"
    /\ charts[3].title = "Phishing Campaign Analysis"

\* C20: each of the three calculate_*_metrics, given an empty dataset, returns
\* its record with every field present, every number 0 and every collection
\* empty.
C20_EmptyDatasetGivesZeroRecord ==
    pc = "ai" =>
        /\ Len(events_df) = 0 =>
               /\ DOMAIN metrics.security_metrics =
                      {"total_events", "critical_events", "high_events", "resolved_events",
                       "avg_impact_score", "top_event_types", "resolution_rate"}
               /\ \A f \in {"total_events", "critical_events", "high_events",
                            "resolved_events"} : metrics.security_metrics[f] = 0
               /\ \A f \in {"avg_impact_score", "resolution_rate"} :
                      /\ metrics.security_metrics[f].num = 0
                      /\ metrics.security_metrics[f].den # 0
               /\ DOMAIN metrics.security_metrics.top_event_types = {}
        /\ Len(phishing_df) = 0 =>
               /\ DOMAIN metrics.phishing_metrics =
                      {"total_campaigns", "avg_success_rate", "total_blocked",
                       "total_clicked", "total_reported", "high_risk_campaigns"}
               /\ \A f \in {"total_campaigns", "total_blocked", "total_clicked",
                            "total_reported", "high_risk_campaigns"} :
                      metrics.phishing_metrics[f] = 0
               /\ metrics.phishing_metrics.avg_success_rate.num = 0
               /\ metrics.phishing_metrics.avg_success_rate.den # 0
        /\ Len(compliance_df) = 0 =>
               /\ DOMAIN metrics.compliance_metrics =
                      {"total_controls", "compliant_controls", "compliance_rate",
                       "avg_compliance_score", "frameworks", "non_compliant_controls"}
               /\ \A f \in {"total_controls", "compliant_controls",
                            "non_compliant_controls"} :
                      metrics.compliance_metrics[f] = 0
               /\ \A f \in {"compliance_rate", "avg_compliance_score"} :
                      /\ metrics.compliance_metrics[f].num = 0
                      /\ metrics.compliance_metrics[f].den # 0
               /\ Len(metrics.compliance_metrics.frameworks) = 0

C20_Witness ==
    /\ pc = "ai"
    /\ Len(events_df) # 0 /\ Len(phishing_df) = 0 /\ Len(compliance_df) # 0
    /\ metrics.phishing_metrics.total_campaigns = 0
    /\ metrics.security_metrics.total_events > 0


\* a is the same day as b or an earlier one
NotAfter(a, b) ==
    \/ a.year < b.year
    \/ a.year = b.year /\ a.month < b.month
    \/ a.year = b.year /\ a.month = b.month /\ a.day <= b.day

\* the last day of month m of year y
LastDayOf(y, m) ==
    CASE m \in {1, 3, 5, 7, 8, 10, 12} -> 31
      [] m \in {4, 6, 9, 11} -> 30
      [] OTHER -> IF y % 400 = 0 \/ (y % 4 = 0 /\ y % 100 # 0) THEN 29 ELSE 28

\* C14: for every period token, one the code names or not, and every day,
\* get_date_range_from_period returns a pair with start_date <= end_date.
C14_StartNotAfterEnd ==
    resolver_pc = "returned" => NotAfter(resolved[1], resolved[2])

C14_Witness ==
    /\ resolver_pc = "returned"
    /\ token = <<"LAST_6_MONTHS">>
    /\ current_date = [year |-> 2025, month |-> 1, day |-> 1]
    /\ resolved[1].year = 2024
    /\ resolved[2] = current_date

\* C15: for last_quarter the pair is the calendar quarter completed last:
\* October 1 to December 31 of the previous year when today is in January to
\* March, else the first to the last day of the quarter before today's in
\* the current year; today is never in the range.
C15_LastCompletedQuarter ==
    (resolver_pc = "returned" /\ token \in {<<"last_quarter">>, <<"Last_Quarter">>}) =>
        LET y == current_date.year
            m == current_date.month
        IN  /\ m \in 1..3 =>
                  resolved = << [year |-> y - 1, month |-> 10, day |-> 1],
                                [year |-> y - 1, month |-> 12, day |-> 31] >>
            /\ m \in 4..6 =>
                  resolved = << [year |-> y, month |-> 1, day |-> 1],
                                [year |-> y, month |-> 3, day |-> 31] >>
            /\ m \in 7..9 =>
                  resolved = << [year |-> y, month |-> 4, day |-> 1],
                                [year |-> y, month |-> 6, day |-> 30] >>
            /\ m \in 10..12 =>
                  resolved = << [year |-> y, month |-> 7, day |-> 1],
                                [year |-> y, month |-> 9, day |-> 30] >>
            /\ ~NotAfter(current_date, resolved[2])

C15_Witness ==
    /\ resolver_pc = "returned"
    /\ token = <<"Last_Quarter">>
    /\ current_date = [year |-> 2025, month |-> 2, day |-> 28]
    /\ resolved[1] = [year |-> 2024, month |-> 10, day |-> 1]

\* C16: for last_month the pair is the calendar month before today's: from
\* its 1st to its last day (28, 29, 30 or 31), December of the previous year
\* when today is in January.
C16_PrecedingFullMonth ==
    (resolver_pc = "returned" /\ token \in {<<"last_month">>, <<"Last_Month">>}) =>
        LET y == IF current_date.month = 1 THEN current_date.year - 1
                 ELSE current_date.year
            m == IF current_date.month = 1 THEN 12 ELSE current_date.month - 1
        IN  resolved = << [year |-> y, month |-> m, day |-> 1],
                          [year |-> y, month |-> m, day |-> LastDayOf(y, m)] >>

C16_Witness ==
    /\ resolver_pc = "returned"
    /\ token = <<"Last_Month">>
    /\ current_date = [year |-> 2024, month |-> 3, day |-> 31]
    /\ resolved = << [year |-> 2024, month |-> 2, day |-> 1],
                     [year |-> 2024, month |-> 2, day |-> 29] >>

\* C17: for every token that is none of last_quarter, last_month,
\* last_6_months, ytd and year_to_date, whatever the case of its letters, the
\* pair is the window from 90 days before today to today.
C17_UnknownTokenIs90Days ==
    (resolver_pc = "returned"
        /\ Lower(token) \notin {<<"last_quarter">>, <<"last_month">>, <<"last_6_months">>,
                                <<"ytd">>, <<"year_to_date">>}) =>
        /\ resolved[2] = current_date
        /\ ToOrdinal(resolved[2]) - ToOrdinal(resolved[1]) = 90
        /\ resolved[1].month \in 1..12
        /\ resolved[1].day \in 1..LastDayOf(resolved[1].year, resolved[1].month)

C17_Witness ==
    /\ resolver_pc = "returned"
    /\ token = <<"last_week">>
    /\ current_date = [year |-> 2025, month |-> 3, day |-> 10]
    /\ resolved = << [year |-> 2024, month |-> 12, day |-> 10],
                     [year |-> 2025, month |-> 3, day |-> 10] >>


\* the predicate a focus tag stands for, applied to a row: the first of the
\* keywords phishing, malware, endpoint, network the tag holds decides the
\* column and the word; FALSE when the tag holds none
TagKeeps(tag, row) ==
    LET t == Lower(tag)
    IN  IF Contains(t, <<"phishing">>)
            THEN Contains(Lower(row.event_type), <<"phishing">>)
        ELSE IF Contains(t, <<"malware">>)
            THEN Contains(Lower(row.event_type), <<"malware">>)
        ELSE IF Contains(t, <<"endpoint">>)
            THEN Contains(Lower(row.target), <<"endpoint">>)
        ELSE IF Contains(t, <<"network">>)
            THEN Contains(Lower(row.source), <<"network">>)
        ELSE FALSE

\* the tag holds one of the four keywords
Recognized(tag) ==
    \E w \in {"phishing", "malware", "endpoint", "network"} : Contains(Lower(tag), <<w>>)

\* the rows of df, by index, that sub is made of, in order
IsSelection(sub, df, kept) ==
    /\ Len(sub) = Cardinality(kept)
    /\ \E pos \in [1..Len(sub) -> 1..Len(df)] :
           /\ \A i \in 1..Len(sub) : pos[i] \in kept /\ sub[i] = df[pos[i]]
           /\ \A i, j \in 1..Len(sub) : i < j => pos[i] < pos[j]

\* C18: the focus filter keeps exactly the rows that satisfy the predicate of
\* at least one focus tag, in their order; a tag without keyword gives no
\* predicate; when no tag gives a predicate, or the list is empty, the
\* dataset is returned as it came.
C18_FocusFilterKeepsMatches ==
    \A c \in 1..Len(filtered) :
        LET tags == filtered[c].focus_areas
        IN  IF \E i \in 1..Len(tags) : Recognized(tags[i])
            THEN IsSelection(filtered[c].df, dated_df,
                             {r \in 1..Len(dated_df) :
                                 \E i \in 1..Len(tags) : TagKeeps(tags[i], dated_df[r])})
            ELSE filtered[c].df = dated_df

C18_Witness ==
    /\ Len(dated_df) = 2
    /\ Len(filtered) = 2
    /\ filtered[1].focus_areas = << <<"Data", " ", "Protection">> >>
    /\ filtered[1].df = dated_df
    /\ filtered[2].focus_areas = << <<"Data", " ", "Protection">>, <<"endpoint", " ", "compliance">> >>
    /\ Len(filtered[2].df) = 1
    /\ filtered[2].df[1].target = <<"ENDPOINT", "-07">>

\* C19 (as claimed): filtering by a list that names more areas never returns
\* more rows than filtering by a list that names fewer of them; every result
\* has at least the rows each predicate of its list matches and at most the
\* rows of the unfiltered dataset.
C19_MoreAreasNeverMoreRows ==
    /\ Len(filtered) = 2 => Len(filtered[2].df) <= Len(filtered[1].df)
    /\ \A c \in 1..Len(filtered) :
           /\ Len(filtered[c].df) <= Len(dated_df)
           /\ \A i \in 1..Len(filtered[c].focus_areas) :
                  Recognized(filtered[c].focus_areas[i]) =>
                      Len(filtered[c].df) >=
                          Cardinality({r \in 1..Len(dated_df) :
                                          TagKeeps(filtered[c].focus_areas[i], dated_df[r])})

\* C19 (amended): for lists S and T of focus areas where T names every area
\* of S: when S gives at least one predicate, filtering by T never returns
\* fewer rows than filtering by S (the predicates are or-ed); when S gives no
\* predicate, filtering by S returns the whole dataset and filtering by T
\* never returns more; every result has at least the rows each predicate of
\* its list matches and at most the rows of the unfiltered dataset.
C19_MoreAreasWiden ==
    /\ Len(filtered) = 2 =>
           IF \E i \in 1..Len(filtered[1].focus_areas) : Recognized(filtered[1].focus_areas[i])
           THEN Len(filtered[2].df) >= Len(filtered[1].df)
           ELSE /\ Len(filtered[1].df) = Len(dated_df)
                /\ Len(filtered[2].df) <= Len(filtered[1].df)
    /\ \A c \in 1..Len(filtered) :
           /\ Len(filtered[c].df) <= Len(dated_df)
           /\ \A i \in 1..Len(filtered[c].focus_areas) :
                  Recognized(filtered[c].focus_areas[i]) =>
                      Len(filtered[c].df) >=
                          Cardinality({r \in 1..Len(dated_df) :
                                          TagKeeps(filtered[c].focus_areas[i], dated_df[r])})

C19_Witness ==
    /\ Len(dated_df) = 2
    /\ Len(filtered) = 2
    /\ filtered[1].focus_areas = << <<"Phishing", " ", "Statistics">> >>
    /\ filtered[2].focus_areas = << <<"Phishing", " ", "Statistics">>, <<"Network", " ", "Security">> >>
    /\ Len(filtered[1].df) = 1
    /\ Len(filtered[2].df) = 2


\* C13: every load returns the complete dataset as it was read from the
\* source: whatever the interleaving of the load_data calls of requests that
\* run at the same time (two of them filling the cache for one name at once
\* included) and of the changes callers make to the frames they received, no
\* load returns a dataset that is partly written or that shows the change of
\* another caller, and the cached original is never modified.
C13_LoadsReturnCompleteCopies ==
    /\ \A t \in Threads :
           /\ thread_pc[t] = "returned" =>
                  /\ thread_ret[t] \in DOMAIN frames
                  /\ frames[thread_ret[t]] =
                         [name |-> FilenameOf(t), parsed |-> TRUE, touched |-> {}]
           /\ thread_pc[t] \in {"filtered", "using"} =>
                  /\ frames[thread_ret[t]].name = FilenameOf(t)
                  /\ frames[thread_ret[t]].parsed
                  /\ frames[thread_ret[t]].touched \subseteq {t}
    /\ \A n \in DatasetNames :
           cached[n] # <<>> =>
               frames[cached[n]] = [name |-> n, parsed |-> TRUE, touched |-> {}]

C13_Witness ==
    /\ thread_pc["request-1"] = "returned"
    /\ thread_pc["request-2"] = "using"
    /\ thread_loads["request-1"] = 0 /\ thread_loads["request-2"] = 0
    /\ thread_df["request-1"] # <<>> /\ thread_df["request-2"] # <<>>
    /\ cached["security_events.csv"] = thread_df["request-2"]
    /\ frames[thread_ret["request-2"]].touched = {"request-2"}

\* the rows of df that satisfy a condition on (column, value)
RowsWhere(df, column, value) == {i \in 1..Len(df) : df[i][column] = value}

\* C21: for every non-empty events dataset, calculate_security_metrics
\* returns total_events = the number of rows, critical_events = the rows of
\* severity "Critical", resolved_events = the rows of status "Resolved" and
\* resolution_rate = resolved_events / total_events * 100; the ten rows with
\* three Critical and seven Resolved give 10, 3, 7 and 70.0.
C21_SecurityMetricsCount ==
    (calc_pc # "loaded" /\ Len(sample.events_df) > 0) =>
        LET m == aggregate.security_metrics
            df == sample.events_df
        IN  /\ m.total_events = Len(df)
            /\ m.critical_events = Cardinality(RowsWhere(df, "severity", "Critical"))
            /\ m.resolved_events = Cardinality(RowsWhere(df, "status", "Resolved"))
            /\ m.resolution_rate.den > 0
            /\ m.resolution_rate.num * m.total_events =
                   m.resolved_events * 100 * m.resolution_rate.den
            /\ df = TenEvents =>
                   /\ m.total_events = 10 /\ m.critical_events = 3
                   /\ m.resolved_events = 7
                   /\ m.resolution_rate.num = 70 * m.resolution_rate.den

C21_Witness ==
    /\ calc_pc = "computed"
    /\ sample.events_df = TenEvents
    /\ aggregate.security_metrics.resolved_events = 7
    /\ aggregate.security_metrics.critical_events = 3

\* the (framework, control_id) pairs of a compliance dataset
ControlPairs(df) == { <<df[i].framework, df[i].control_id>> : i \in 1..Len(df) }

\* the rows of df that assess the control `pair` on the last date it was assessed
LatestRowsOf(df, pair) ==
    LET of_pair == {i \in 1..Len(df) : <<df[i].framework, df[i].control_id>> = pair}
    IN  {i \in of_pair :
            \A j \in of_pair : ToOrdinal(df[j].date) <= ToOrdinal(df[i].date)}

\* the least and the greatest number of controls of `status` that a choice of
\* one latest assessment per control can give
FewestWith(df, status) ==
    Cardinality({pair \in ControlPairs(df) :
                    \A i \in LatestRowsOf(df, pair) : df[i].status = status})

MostWith(df, status) ==
    Cardinality({pair \in ControlPairs(df) :
                    \E i \in LatestRowsOf(df, pair) : df[i].status = status})

\* C22: calculate_compliance_metrics counts every (framework, control_id)
\* pair once, by an assessment of its most recent date: total_controls is the
\* number of distinct pairs, compliant_controls and non_compliant_controls
\* count pairs by a latest assessment (so an older assessment of a control
\* never contributes), and compliance_rate = compliant_controls /
\* total_controls * 100.
C22_LatestPerControl ==
    (calc_pc # "loaded" /\ Len(sample.compliance_df) > 0) =>
        LET m == aggregate.compliance_metrics
            df == sample.compliance_df
        IN  /\ m.total_controls = Cardinality(ControlPairs(df))
            /\ FewestWith(df, "Compliant") <= m.compliant_controls
            /\ m.compliant_controls <= MostWith(df, "Compliant")
            /\ FewestWith(df, "Non-Compliant") <= m.non_compliant_controls
            /\ m.non_compliant_controls <= MostWith(df, "Non-Compliant")
            /\ m.compliance_rate.den > 0
            /\ m.compliance_rate.num * m.total_controls =
                   m.compliant_controls * 100 * m.compliance_rate.den

C22_Witness ==
    /\ calc_pc = "computed"
    /\ Len(sample.compliance_df) = 3
    /\ sample.compliance_df[1].status = "Compliant"
    /\ sample.compliance_df[1].framework = <<"ISO27001">>
    /\ sample.compliance_df[2].status = "Non-Compliant"
    /\ sample.compliance_df[2].date = Date(2025, 1, 10)
    /\ sample.compliance_df[3].framework = <<"SOC2">>
    /\ aggregate.compliance_metrics.total_controls = 2
    /\ aggregate.compliance_metrics.compliant_controls = 2
    /\ aggregate.compliance_metrics.non_compliant_controls = 0

\* `value` is the number num/den written with one decimal, followed by `suffix`
ShowsOneDecimal(value, x, suffix) ==
    \E tenths \in 0..1000 :
        /\ value = <<ToString(tenths \div 10), ".", ToString(tenths % 10)>> \o suffix
        /\ 2 * (tenths * x.den - 10 * x.num) <= x.den
        /\ 2 * (10 * x.num - tenths * x.den) <= x.den

\* `value` is the integer n as it is
ShowsCount(value, n) == value = <<ToString(n)>>

\* C23: for every metrics aggregate, the all-zero one included,
\* prepare_kpi_data returns the same ordered list of ten KPIs (the four
\* security KPIs, the three phishing KPIs, the three compliance KPIs), every
\* value taken from the metric field of its label.
C23_TenKpisInOrder ==
    calc_pc = "flattened" =>
        LET sec == aggregate.security_metrics
            phish == aggregate.phishing_metrics
            comp == aggregate.compliance_metrics
        IN  /\ [i \in 1..Len(kpi_list) |-> kpi_list[i].label] =
                   <<"Total Security Events", "Critical Events", "Resolution Rate",
                     "Avg Impact Score", "Phishing Campaigns", "Avg Success Rate",
                     "Emails Blocked", "Compliance Rate", "Total Controls",
                     "Avg Compliance Score">>
            /\ ShowsCount(kpi_list[1].value, sec.total_events)
            /\ ShowsCount(kpi_list[2].value, sec.critical_events)
            /\ ShowsOneDecimal(kpi_list[3].value, sec.resolution_rate, <<"%">>)
            /\ ShowsOneDecimal(kpi_list[4].value, sec.avg_impact_score, <<>>)
            /\ ShowsCount(kpi_list[5].value, phish.total_campaigns)
            /\ ShowsOneDecimal(kpi_list[6].value, phish.avg_success_rate, <<"%">>)
            /\ ShowsCount(kpi_list[7].value, phish.total_blocked)
            /\ ShowsOneDecimal(kpi_list[8].value, comp.compliance_rate, <<"%">>)
            /\ ShowsCount(kpi_list[9].value, comp.total_controls)
            /\ ShowsOneDecimal(kpi_list[10].value, comp.avg_compliance_score, <<>>)

C23_Witness ==
    /\ calc_pc = "flattened"
    /\ sample.events_df = <<>> /\ sample.phishing_df = <<>> /\ sample.compliance_df = <<>>
    /\ Len(kpi_list) = 10
    /\ kpi_list[1].value = <<"0">>
    /\ kpi_list[8].value = <<"0", ".", "0", "%">>

\* the assessment of `pair` that a stable date-ascending sort puts last: of
\* the rows of its most recent date, the one last in input order
LastInInputOrder(df, pair) ==
    CHOOSE i \in LatestRowsOf(df, pair) : \A j \in LatestRowsOf(df, pair) : j <= i

\* C25: when several assessments of one (framework, control_id) pair share
\* the most recent date, the one last in input order contributes to the
\* compliance metrics, for every input order of the tied rows.
C25_TieGoesToLastInInput ==
    (calc_pc # "loaded" /\ Len(sample.compliance_df) > 0) =>
        LET m == aggregate.compliance_metrics
            df == sample.compliance_df
            counted == {LastInInputOrder(df, pair) : pair \in ControlPairs(df)}
        IN  /\ m.compliant_controls =
                   Cardinality({i \in counted : df[i].status = "Compliant"})
            /\ m.non_compliant_controls =
                   Cardinality({i \in counted : df[i].status = "Non-Compliant"})

\* C26: every rate that reaches the KPI list is a percentage in [0,100], and
\* the phishing success_rate, a fraction in [0,1] at its source, is multiplied
\* by 100 once on the way to the "Avg Success Rate" KPI: the KPI shows the
\* mean of the fractions as a percentage with one decimal.
C26_RatesArePercentages ==
    calc_pc = "flattened" =>
        LET InPercentRange(x) == x.den > 0 /\ 0 <= x.num /\ x.num <= 100 * x.den
            df == sample.phishing_df
            hundredths == SumColumn(df, "success_rate")
        IN  /\ InPercentRange(aggregate.security_metrics.resolution_rate)
            /\ InPercentRange(aggregate.compliance_metrics.compliance_rate)
            /\ InPercentRange(aggregate.phishing_metrics.avg_success_rate)
            /\ \A i \in 1..Len(df) : df[i].success_rate \in 0..100
            /\ ShowsOneDecimal(kpi_list[6].value,
                               Frac(hundredths, IF Len(df) = 0 THEN 1 ELSE Len(df)),
                               <<"%">>)

C26_Witness ==
    /\ calc_pc = "flattened"
    /\ Len(sample.phishing_df) = 2
    /\ sample.phishing_df[1].success_rate = 25
    /\ sample.phishing_df[2].success_rate = 10
    /\ kpi_list[6].value = <<"17", ".", "5", "%">>
    /\ kpi_list[6].label = "Avg Success Rate"

\* C24: in production the response to an internal error during report
\* generation (an exception other than the handler's own HTTPException) is
\* an HTTP 500 with the generic body, the same for every exception, and it
\* does not hold the text of the exception.
C24_ProductionErrorsAreGeneric ==
    (/\ pc = "done" /\ response.code = 500
     /\ exc.type # "HTTPException" /\ IsProduction(environment)) =>
        /\ response.detail = GlobalExceptionHandler(exc, environment).detail
        /\ ~Contains(response.detail, exc.text)

\* C27: the module-level singletons are written by no request, the cache
\* entries of the data processor aside.
C27_SingletonsNotWritten == singleton_writes = {}

\* C28: within one report assembly the events, phishing and compliance
\* datasets are filtered with the same (start_date, end_date) pair, also when
\* the clock advances between the dataset loads.
C28_OneRangePerAssembly ==
    \A i, j \in 1..Len(ranges) : ranges[i] = ranges[j]

\* what the Filter Engine returned for the request in hand, from the cached
\* dataset `name`
FilterOutput(name) ==
    LET range == GetDateRangeFromPeriod(request.time_period, now.date)
        in_range == FilterByDateRange(data_cache[name].df, range[1], range[2])
    IN  IF name = "security_events.csv"
        THEN ApplyFocusFilters(in_range, request.focus_areas)
        ELSE in_range

\* C30: building the chart list leaves the three filtered datasets unchanged:
\* the events, phishing and compliance data of the report data have the rows
\* and columns that the filter produced and the metrics were computed from.
C30_ChartsLeaveDatasetsUnchanged ==
    pc \in {"kpi", "render", "pdf", "email"} =>
        /\ events_df = FilterOutput("security_events.csv")
        /\ phishing_df = FilterOutput("phishing_data.csv")
        /\ compliance_df = FilterOutput("compliance_data.csv")

\* C29: two requests that both reach PDF generation, at the same time or in
\* the same clock second, with the same report_type and time_period or not,
\* receive distinct report_ids, and neither PDF is overwritten by the other:
\* the document a request mails and reports is the one it rendered.
C29_ReportsKeptApart ==
    \A t \in Threads :
        /\ \A u \in Threads \ {t} :
               (job[t].pc = "done" /\ job[u].pc = "done") =>
                   job[t].report_id # job[u].report_id
        /\ (job[t].pc \in {"mailed", "done"} /\ email_sender # "None") =>
               job[t].attachment = t
        /\ job[t].pc \in {"written", "mailed", "done"} =>
               FileAt(reports_dir, job[t].pdf_path).by = t

====
